---- MODULE Spec2Model ----
(***************************************************************************)
(* Model of intercom_test.http_best_matches: the Database of recorded      *)
(* cases, its exact lookup and its nearest-match reports.                  *)
(*                                                                         *)
(* Encoding of Python values                                               *)
(*   str used as a token ........ a TLA+ string                            *)
(*   str/bytes measured by Levenshtein ... a sequence of one-character     *)
(*                                  strings                                *)
(*   dict ....................... a function from its keys (strings)       *)
(*   list / tuple ............... a sequence                               *)
(*   JSON value ................. [t |-> Python type name, v |-> payload]  *)
(* Indices handed to the operators that model difflib are Python's:        *)
(* 0-based, half-open.                                                     *)
(***************************************************************************)
EXTENDS Integers, Sequences, FiniteSets, TLC

VARIABLES cases, add_request_keys, responses, reqlines, urls, paths,
          op, request, deadline, result, compared, calls,
          serverless, routing

vars == <<cases, add_request_keys, responses, reqlines, urls, paths,
          op, request, deadline, result, compared, calls,
          serverless, routing>>

-----------------------------------------------------------------------------
(* Python built-ins and library functions the module calls                 *)

Min(a, b) == IF a <= b THEN a ELSE b

Max(a, b) == IF a >= b THEN a ELSE b

Range(s) == {s[i] : i \in 1..Len(s)}

\* s[lo:hi] of Python (0-based, half-open)
Slice(s, lo, hi) == [i \in 1..(hi - lo) |-> s[lo + i]]

\* s[:n]
Take(s, n) == Slice(s, 0, Min(n, Len(s)))

RECURSIVE Concat(_)
Concat(ss) == IF ss = <<>> THEN <<>> ELSE Head(ss) \o Concat(Tail(ss))

\* the list built by appending f[1], ..., f[n] in turn
Tabulate(f) ==
  LET RECURSIVE tab(_)
      tab(i) == IF i = 0 THEN <<>> ELSE Append(tab(i - 1), f[i])
  IN tab(Len(f))

RECURSIVE Sum(_)
Sum(s) == IF s = <<>> THEN 0 ELSE Head(s) + Sum(Tail(s))

\* CPython's list.sort for fewer than 64 items (minrun = n): count_run finds
\* the leading run (a strictly descending one is reversed), then
\* binarysort inserts every later item; < is the only comparison used, and
\* lt[i][j] tells whether s[i] < s[j] (whether key(s[i]) < key(s[j]) when
\* the sort is given a key).
PySort(s, lt) ==
  LET n == Len(s)
      Lt(i, j) == lt[i][j]
      RECURSIVE asc(_), desc(_), bsearch(_, _, _, _), binsort(_, _)
      asc(i) == IF i < n /\ ~Lt(i + 1, i) THEN asc(i + 1) ELSE i
      desc(i) == IF i < n /\ Lt(i + 1, i) THEN desc(i + 1) ELSE i
      \* l, r are 0-based positions in the sorted prefix a
      bsearch(a, pivot, l, r) ==
        IF l >= r THEN l
        ELSE LET p == l + ((r - l) \div 2)
             IN IF Lt(pivot, a[p + 1]) THEN bsearch(a, pivot, l, p)
                ELSE bsearch(a, pivot, p + 1, r)
      binsort(a, start) ==
        IF start > n THEN a
        ELSE LET pivot == start
                 l == bsearch(a, pivot, 0, Len(a))
             IN binsort(Slice(a, 0, l) \o <<pivot>> \o Slice(a, l, Len(a)),
                        start + 1)
      ids == [i \in 1..n |-> i]
      sorted == IF Lt(2, 1)
                THEN LET r == desc(2) IN binsort([i \in 1..r |-> r + 1 - i], r + 1)
                ELSE LET r == asc(2) IN binsort(Slice(ids, 0, r), r + 1)
  IN IF n <= 1 THEN s ELSE [i \in 1..n |-> s[sorted[i]]]

\* Levenshtein.distance(a, b): unit-cost insert, delete, substitute
RECURSIVE Levenshtein(_, _)
Levenshtein(a, b) ==
  IF a = <<>> THEN Len(b)
  ELSE IF b = <<>> THEN Len(a)
  ELSE IF Head(a) = Head(b) THEN Levenshtein(Tail(a), Tail(b))
  ELSE 1 + Min(Levenshtein(Tail(a), Tail(b)),
               Min(Levenshtein(Tail(a), b), Levenshtein(a, Tail(b))))

-----------------------------------------------------------------------------
(* difflib.SequenceMatcher(None, a, b): no junk, and the autojunk          *)
(* heuristic only acts on sequences of 200 items or more                   *)

RECURSIVE MatchLen(_, _, _, _, _, _)
MatchLen(a, b, i, j, ahi, bhi) ==
  IF i < ahi /\ j < bhi /\ a[i + 1] = b[j + 1]
  THEN 1 + MatchLen(a, b, i + 1, j + 1, ahi, bhi)
  ELSE 0

\* find_longest_match: the longest block; of those the one starting
\* earliest in a, and of those the one starting earliest in b
FindLongestMatch(a, b, alo, ahi, blo, bhi) ==
  LET starts == (alo..(ahi - 1)) \X (blo..(bhi - 1))
      len(p) == MatchLen(a, b, p[1], p[2], ahi, bhi)
      found == {p \in starts : len(p) > 0}
  IN IF found = {} THEN <<alo, blo, 0>>
     ELSE LET best == CHOOSE p \in found :
                        \A q \in found :
                          \/ len(p) > len(q)
                          \/ /\ len(p) = len(q)
                             /\ \/ p[1] < q[1]
                                \/ p[1] = q[1] /\ p[2] <= q[2]
          IN <<best[1], best[2], len(best)>>

RECURSIVE MatchingBlocksIn(_, _, _, _, _, _)

\* get_matching_blocks, given the longest match m = <<i, j, k>> of
\* a[alo:ahi] and b[blo:bhi]: the blocks to its left, m, those to its right
MatchingBlocksAround(a, b, alo, ahi, blo, bhi, m) ==
  IF m[3] = 0 THEN <<>>
  ELSE (IF alo < m[1] /\ blo < m[2]
        THEN MatchingBlocksIn(a, b, alo, m[1], blo, m[2]) ELSE <<>>)
       \o <<m>> \o
       (IF m[1] + m[3] < ahi /\ m[2] + m[3] < bhi
        THEN MatchingBlocksIn(a, b, m[1] + m[3], ahi, m[2] + m[3], bhi)
        ELSE <<>>)

MatchingBlocksIn(a, b, alo, ahi, blo, bhi) ==
  MatchingBlocksAround(a, b, alo, ahi, blo, bhi,
                       FindLongestMatch(a, b, alo, ahi, blo, bhi))

\* the loop of get_matching_blocks that merges adjacent blocks
RECURSIVE CollapseAdjacent(_, _)
CollapseAdjacent(blocks, cur) ==
  IF blocks = <<>> THEN (IF cur[3] > 0 THEN <<cur>> ELSE <<>>)
  ELSE LET nxt == Head(blocks)
       IN IF cur[1] + cur[3] = nxt[1] /\ cur[2] + cur[3] = nxt[2]
          THEN CollapseAdjacent(Tail(blocks),
                                <<cur[1], cur[2], cur[3] + nxt[3]>>)
          ELSE (IF cur[3] > 0 THEN <<cur>> ELSE <<>>)
               \o CollapseAdjacent(Tail(blocks), nxt)

GetMatchingBlocks(a, b) ==
  CollapseAdjacent(MatchingBlocksIn(a, b, 0, Len(a), 0, Len(b)), <<0, 0, 0>>)
    \o <<<<Len(a), Len(b), 0>>>>

\* the tag of the opcode that leads from (i, j) to the block at (ai, bj)
OpcodeTag(i, j, ai, bj) ==
  IF i < ai /\ j < bj THEN "replace"
  ELSE IF i < ai THEN "delete"
  ELSE IF j < bj THEN "insert"
  ELSE ""

RECURSIVE OpcodesFrom(_, _, _)
OpcodesFrom(blocks, i, j) ==
  IF blocks = <<>> THEN <<>>
  ELSE LET ai == Head(blocks)[1]
           bj == Head(blocks)[2]
           size == Head(blocks)[3]
       IN (IF OpcodeTag(i, j, ai, bj) # ""
           THEN <<<<OpcodeTag(i, j, ai, bj), i, ai, j, bj>>>> ELSE <<>>)
          \o (IF size > 0
              THEN <<<<"equal", ai, ai + size, bj, bj + size>>>> ELSE <<>>)
          \o OpcodesFrom(Tail(blocks), ai + size, bj + size)

\* get_opcodes: 5-tuples <<tag, i1, i2, j1, j2>>
GetOpcodes(a, b) == OpcodesFrom(GetMatchingBlocks(a, b), 0, 0)

\* the opcodes every caller keeps: those whose tag is not 'equal'
Edits(a, b) == SelectSeq(GetOpcodes(a, b), LAMBDA oc : oc[1] # "equal")

\* that sum over the lengths consumed of the first sequence alone
EditsOfReference(opcodes) ==
  Sum([n \in 1..Len(opcodes) |-> opcodes[n][3] - opcodes[n][2]])

\* sum(max(i2 - i1, j2 - j1) ...) over the opcodes that are not 'equal'
EditCount(opcodes) ==
  Sum([n \in 1..Len(opcodes) |->
         Max(opcodes[n][3] - opcodes[n][2], opcodes[n][5] - opcodes[n][4])])

\* _alt_range(i1, i2, j1, j2) is range(this many)
AltRange(oc) == Min(oc[3] - oc[2], oc[5] - oc[4])

-----------------------------------------------------------------------------
(* Strings: Python orders str by code point; StrOrder lists, in that       *)
(* order, the strings the model ever compares with <                       *)

StrOrder == <<"", "1", "2", "a", "b", "c", "story", "tag", "x", "y">>

\* x < y
StrLt(x, y) ==
  \E i, j \in 1..Len(StrOrder) : i < j /\ StrOrder[i] = x /\ StrOrder[j] = y

\* str.lower()
Lower(s) == CASE s = "GET" -> "get" [] s = "POST" -> "post" [] OTHER -> s

\* tuple < tuple for tuples of ints
RECURSIVE IntTupleLt(_, _)
IntTupleLt(a, b) ==
  IF b = <<>> THEN FALSE
  ELSE IF a = <<>> THEN TRUE
  ELSE IF Head(a) # Head(b) THEN Head(a) < Head(b)
  ELSE IntTupleLt(Tail(a), Tail(b))

\* d.get(k, default)
Get(d, k, default) == IF k \in DOMAIN d THEN d[k] ELSE default

\* a Python value of type t
PyVal(t, v) == [t |-> t, v |-> v]

\* None
NoneV == PyVal("NoneType", "None")

\* An ordered dict (insertion order kept) is a sequence of <<key, value>>
DictHas(d, k) == \E i \in 1..Len(d) : d[i][1] = k

DictGet(d, k) == d[CHOOSE i \in 1..Len(d) : d[i][1] = k][2]

DictKeys(d) == [i \in 1..Len(d) |-> d[i][1]]

\* d[k] = v: an existing key keeps its place
DictSet(d, k, v) ==
  IF DictHas(d, k)
  THEN [i \in 1..Len(d) |-> IF d[i][1] = k THEN <<k, v>> ELSE d[i]]
  ELSE Append(d, <<k, v>>)

\* _group_dict(a, key, value=...): keys[i] is key(a[i]) and values[i] is
\* value(a[i])
GroupDict(keys, values) ==
  LET RECURSIVE grp(_, _)
      grp(i, acc) ==
        IF i > Len(keys) THEN acc
        ELSE LET k == keys[i]
                 old == IF DictHas(acc, k) THEN DictGet(acc, k) ELSE <<>>
             IN grp(i + 1, DictSet(acc, k, Append(old, values[i])))
  IN grp(1, <<>>)

-----------------------------------------------------------------------------
(* URLs.  A case is a dict of values [t |-> type, v |-> payload]; the      *)
(* payload of its 'url' is held as what urlparse splits the string into:   *)
(* [path |-> characters, query |-> the name=value pairs in textual order]. *)

\* urllib.parse.parse_qsl(query): pairs with a blank value are dropped
ParseQsl(query) == SelectSeq(query, LAMBDA p : p[2] # "")

\* urlparse(case['url'])
UrlParse(case) == case["url"].v

\* _request_url_path
RequestUrlPath(case) == UrlParse(case).path

\* the path and the pairs in the order they are written in
RequestUrlAsWritten(case) ==
  <<UrlParse(case).path, ParseQsl(UrlParse(case).query)>>

\* _request_url: the path and the pairs stably sorted on the name alone
RequestUrl(case) ==
  <<UrlParse(case).path,
    LET qsl == ParseQsl(UrlParse(case).query)
    IN PySort(qsl, [i \in 1..Len(qsl) |->
                      [j \in 1..Len(qsl) |-> StrLt(qsl[i][1], qsl[j][1])]])>>

\* the method as the case spells it
MethodAsWritten(case) == Get(case, "method", PyVal("str", "get")).v

\* _http_method
HttpMethod(case) == Lower(Get(case, "method", PyVal("str", "get")).v)

\* _reqline
Reqline(case) == <<HttpMethod(case), case["url"]>>

-----------------------------------------------------------------------------
(* JSON documents                                                          *)

JSON_TYPES == <<"NoneType", "str", "int", "float", "list", "dict">>

\* lookup_json_type(type(x)): the JsonType (an IntEnum numbered from 1), or
\* None, here 0, for a type that JSON_TYPES lacks (bool)
LookupJsonType(tname) ==
  IF \E i \in 1..Len(JSON_TYPES) : JSON_TYPES[i] = tname
  THEN CHOOSE i \in 1..Len(JSON_TYPES) : JSON_TYPES[i] = tname
  ELSE 0

\* JsonType.is_collection, of a JsonType
IsCollection(jt) == jt >= LookupJsonType("list")

\* a key path segment: a dict key, or a list index written "[i]"
IndexSegment(i) == <<"[0]", "[1]", "[2]", "[3]", "[4]", "[5]">>[i + 1]

\* sorted(d)
SortedKeys(d) == SelectSeq(StrOrder, LAMBDA k : k \in DOMAIN d)

\* JsonWalker._walk_node: the (signature, value, key path) triples in
\* pre-order
RECURSIVE WalkNode(_, _)
WalkNode(node, key_path) ==
  IF node.t = "dict"
  THEN LET keys == SortedKeys(node.v)
       IN <<<<<<LookupJsonType("dict"),
                {<<k, LookupJsonType(node.v[k].t)>> : k \in DOMAIN node.v}>>,
              node, key_path>>>>
          \o Concat([i \in 1..Len(keys) |->
                      WalkNode(node.v[keys[i]], Append(key_path, keys[i]))])
  ELSE IF node.t = "list"
  THEN <<<<<<LookupJsonType("list"),
             [i \in 1..Len(node.v) |-> LookupJsonType(node.v[i].t)]>>,
           node, key_path>>>>
       \o Concat([i \in 1..Len(node.v) |->
                   WalkNode(node.v[i], Append(key_path, IndexSegment(i - 1)))])
  ELSE <<<<<<LookupJsonType(node.t), node.v>>, node, key_path>>>>

\* JsonWalker.walk / JsonMap._json_index
JsonIndex(json_data) == WalkNode(json_data, <<>>)

\* item[0][0].is_collection raises AttributeError when the type is None
IndexRaises(index) == \E i \in 1..Len(index) : index[i][1][1] = 0

\* signature < signature, as Python compares the tuples (JsonType, info):
\* a list's info is a tuple of types, a dict's a frozenset of (key, type),
\* and frozenset < frozenset is proper inclusion
SigLt(s1, s2) ==
  IF s1[1] # s2[1] THEN s1[1] < s2[1]
  ELSE IF s1[2] = s2[2] THEN FALSE
  ELSE IF s1[1] = LookupJsonType("list") THEN IntTupleLt(s1[2], s2[2])
  ELSE s1[2] \subseteq s2[2]

Collections(index) == SelectSeq(index, LAMBDA item : IsCollection(item[1][1]))

\* item[n] for item in items
Column(items, n) == [i \in 1..Len(items) |-> items[i][n]]

\* (item[m], item[n]) for item in items
Columns(items, m, n) == [i \in 1..Len(items) |-> <<items[i][m], items[i][n]>>]

\* sorted(items, key=itemgetter(0))
SortedBySignature(items) ==
  PySort(items, [i \in 1..Len(items) |->
                   [j \in 1..Len(items) |-> SigLt(items[i][1], items[j][1])]])

\* JsonMap._index_substructures
TypeSortedSubstructures(index) == SortedBySignature(Collections(index))

\* JsonMap.substruct_signatures
SubstructSignatures(index) == Column(TypeSortedSubstructures(index), 1)

\* the key paths of the substructures as the walk met them
KeyPathsInDocumentOrder(index) == Column(Collections(index), 3)

\* JsonMap.substruct_key_paths
SubstructKeyPaths(index) == Column(TypeSortedSubstructures(index), 3)

\* JsonMap.substruct_locations
SubstructLocations(index) == Columns(Collections(index), 3, 1)

\* JsonMap.scalars
Scalars(index) ==
  Columns(SelectSeq(index, LAMBDA item : ~IsCollection(item[1][1])), 3, 2)

\* JsonMap.items_from_signature
ItemsFromSignature(index, sig) ==
  Column(SelectSeq(index, LAMBDA item : item[1] = sig), 2)

\* what == and hash make of a scalar: an int and a float of the same
\* numeric value are one and the same to SequenceMatcher
PyValue(node) ==
  IF node.t \in {"int", "float"} THEN <<"number", node.v>>
  ELSE <<node.t, node.v>>

-----------------------------------------------------------------------------
(* JsonComparer                                                            *)

\* JsonComparer.Delta(struct, struct_loc, scalar)
Delta(struct, struct_loc, scalar) == <<struct, struct_loc, scalar>>

\* the three lengths with the scalar edits counted first
ScalarsFirstDistance(delta) == <<Len(delta[3]), Len(delta[2]), Len(delta[1])>>

\* Delta.edit_distance
EditDistance(delta) == <<Len(delta[1]), Len(delta[2]), Len(delta[3])>>

\* the body of the opcode loop shared by _substruct_signature_diffs and
\* _substruct_location_diffs: 'alt' for the zipped pairs, then 'del' for
\* what is left of current, then 'add' for what is left of target
StructMods(oc, current, target, case_index) ==
  LET n == AltRange(oc)
      cur == Slice(current, oc[2], oc[3])
      tgt == Slice(target, oc[4], oc[5])
      congruent(sig) == ItemsFromSignature(case_index, sig)
  IN [i \in 1..n |->
        ("alt" :> cur[i]) @@ ("to" :> tgt[i])
          @@ ("congruent options" :> congruent(tgt[i]))]
     \o [i \in 1..(Len(cur) - n) |-> ("del" :> cur[n + i])]
     \o [i \in 1..(Len(tgt) - n) |->
           ("add" :> tgt[n + i])
             @@ ("congruent options" :> congruent(tgt[n + i]))]

\* the opcode loop of those two methods, over the opcodes that are not
\* 'equal'
StructDiffs(opcodes, current, target, case_index) ==
  Concat([n \in 1..Len(opcodes) |->
            StructMods(opcodes[n], current, target, case_index)])

\* JsonComparer._substruct_signature_diffs
SubstructSignatureDiffs(ref_index, case_index) ==
  StructDiffs(Edits(SubstructSignatures(ref_index),
                    SubstructSignatures(case_index)),
              SubstructKeyPaths(ref_index), SubstructSignatures(case_index),
              case_index)

\* JsonComparer._substruct_location_diffs
SubstructLocationDiffs(ref_index, case_index) ==
  StructDiffs(Edits(SubstructLocations(ref_index),
                    SubstructLocations(case_index)),
              Column(SubstructLocations(ref_index), 1),
              Column(SubstructLocations(case_index), 2), case_index)

\* that loop body with 'to' naming the value the reference has
ScalarModsToOwn(oc, ref_scalars, case_scalars) ==
  LET n == AltRange(oc)
      cur == Slice(ref_scalars, oc[2], oc[3])
      tgt == Slice(case_scalars, oc[4], oc[5])
  IN [i \in 1..n |-> ("set" :> cur[i][1]) @@ ("to" :> cur[i][2])]
     \o [i \in 1..(Len(cur) - n) |-> ("del" :> cur[n + i][1])]
     \o [i \in 1..(Len(tgt) - n) |-> ("ins" :> tgt[n + i][2])]

\* the body of the opcode loop of _scalar_diffs
ScalarMods(oc, ref_scalars, case_scalars) ==
  LET n == AltRange(oc)
      cur == Slice(ref_scalars, oc[2], oc[3])
      tgt == Slice(case_scalars, oc[4], oc[5])
  IN [i \in 1..n |-> ("set" :> cur[i][1]) @@ ("to" :> tgt[i][2])]
     \o [i \in 1..(Len(cur) - n) |-> ("del" :> cur[n + i][1])]
     \o [i \in 1..(Len(tgt) - n) |-> ("ins" :> tgt[n + i][2])]

\* the (key path, value) pairs as == and hash see them
ScalarKeys(scalars) ==
  [i \in 1..Len(scalars) |-> <<scalars[i][1], PyValue(scalars[i][2])>>]

\* the opcode loop of _scalar_diffs, over the opcodes that are not 'equal'
ScalarModsOf(opcodes, ref_scalars, case_scalars) ==
  Concat([n \in 1..Len(opcodes) |->
            ScalarMods(opcodes[n], ref_scalars, case_scalars)])

\* JsonComparer._scalar_diffs
ScalarDiffs(ref_index, case_index) ==
  ScalarModsOf(Edits(ScalarKeys(Scalars(ref_index)),
                     ScalarKeys(Scalars(case_index))),
               Scalars(ref_index), Scalars(case_index))

\* JsonComparer(ref).diff(case) raises AttributeError
JsonDiffRaises(ref, case) ==
  IndexRaises(JsonIndex(ref)) \/ IndexRaises(JsonIndex(case))

\* the three steps of diff, each taken only if the one before found no
\* difference
FirstDifference(struct, struct_loc, scalar) ==
  IF struct # <<>> THEN Delta(struct, <<>>, <<>>)
  ELSE IF struct_loc # <<>> THEN Delta(<<>>, struct_loc, <<>>)
  ELSE Delta(<<>>, <<>>, scalar)

\* diff, given the two JsonMap indexes
DiffOfIndexes(ref_index, case_index) ==
  FirstDifference(SubstructSignatureDiffs(ref_index, case_index),
                  SubstructLocationDiffs(ref_index, case_index),
                  ScalarDiffs(ref_index, case_index))

\* JsonComparer(ref).diff(case), when it returns
JsonDiff(ref, case) == DiffOfIndexes(JsonIndex(ref), JsonIndex(case))

-----------------------------------------------------------------------------
(* QStringComparer                                                         *)

\* QStringComparer.Delta(edits, params, mods)
QSDelta(edits, params, mods) == <<edits, params, mods>>

\* that loop body with 'chg' and 'to' the other way round
QSModsReversed(oc, ref_qsparams, case_qsparams) ==
  LET n == AltRange(oc)
      cur == Slice(ref_qsparams, oc[2], oc[3])
      tgt == Slice(case_qsparams, oc[4], oc[5])
  IN Concat([i \in 1..n |->
               IF cur[i][1] = tgt[i][1]
               THEN <<("field" :> cur[i][1]) @@ ("chg" :> tgt[i][2])
                        @@ ("to" :> cur[i][2])>>
               ELSE <<("field" :> cur[i][1]) @@ ("del" :> cur[i][2]),
                      ("field" :> tgt[i][1]) @@ ("add" :> tgt[i][2])>>])
     \o [i \in 1..(Len(cur) - n) |->
           ("field" :> cur[n + i][1]) @@ ("del" :> cur[n + i][2])]
     \o [i \in 1..(Len(tgt) - n) |->
           ("field" :> tgt[n + i][1]) @@ ("add" :> tgt[n + i][2])]

\* the body of the opcode loop of QStringComparer._mods
QSMods(oc, ref_qsparams, case_qsparams) ==
  LET n == AltRange(oc)
      cur == Slice(ref_qsparams, oc[2], oc[3])
      tgt == Slice(case_qsparams, oc[4], oc[5])
  IN Concat([i \in 1..n |->
               IF cur[i][1] = tgt[i][1]
               THEN <<("field" :> cur[i][1]) @@ ("chg" :> cur[i][2])
                        @@ ("to" :> tgt[i][2])>>
               ELSE <<("field" :> cur[i][1]) @@ ("del" :> cur[i][2]),
                      ("field" :> tgt[i][1]) @@ ("add" :> tgt[i][2])>>])
     \o [i \in 1..(Len(cur) - n) |->
           ("field" :> cur[n + i][1]) @@ ("del" :> cur[n + i][2])]
     \o [i \in 1..(Len(tgt) - n) |->
           ("field" :> tgt[n + i][1]) @@ ("add" :> tgt[n + i][2])]

\* the opcode loop of _mods, over the opcodes that are not 'equal'
QSModsOf(opcodes, ref_qsparams, case_qsparams) ==
  Concat([n \in 1..Len(opcodes) |->
            QSMods(opcodes[n], ref_qsparams, case_qsparams)])

\* delta_params after the opcode loop of diff
DeltaParams(opcodes, ref_qsparams, case_qsparams) ==
  UNION {{ref_qsparams[i + 1][1] : i \in opcodes[n][2]..(opcodes[n][3] - 1)}
           \cup {case_qsparams[j + 1][1]
                 : j \in opcodes[n][4]..(opcodes[n][5] - 1)}
         : n \in 1..Len(opcodes)}

\* delta_param_values
DeltaParamValues(case_qsparams, delta_params) ==
  GroupDict(
    Column(SelectSeq(case_qsparams, LAMBDA param : param[1] \in delta_params), 1),
    Column(SelectSeq(case_qsparams, LAMBDA param : param[1] \in delta_params), 2))

\* diff, given the opcodes that are not 'equal'
QSDiffByOpcodes(opcodes, ref_qsparams, case_qsparams) ==
  QSDelta(EditCount(opcodes),
          DeltaParamValues(case_qsparams,
                           DeltaParams(opcodes, ref_qsparams, case_qsparams)),
          QSModsOf(opcodes, ref_qsparams, case_qsparams))

\* QStringComparer(ref_qsparams).diff(case_qsparams)
QSDiff(ref_qsparams, case_qsparams) ==
  QSDiffByOpcodes(Edits(ref_qsparams, case_qsparams), ref_qsparams,
                  case_qsparams)

-----------------------------------------------------------------------------
(* Python values held in a case or a request: [t |-> type, v |-> payload]  *)

\* a url value; see the note on URLs above
PUrl(path, query) == PyVal("str", [path |-> path, query |-> query])

\* isinstance(v, bytes)
IsBytes(v) == v.t = "bytes"

\* str(v) of a bytes value: its repr, b'...'
StrOfBytes(v) == <<"b", "'">> \o v.v \o <<"'">>

\* intercom_test.utils.FilteredDictView(d, key_filter=..., value_transform=...):
\* key_filter is the set of keys the predicate accepts, and
\* value_transform[k] is the transform of d[k]
FilteredDictView(d, key_filter, value_transform) ==
  [k \in DOMAIN d \cap key_filter |-> value_transform[k]]

\* sorted(view.items()): the keys of a dict differ, so the pairs are ordered
\* by key
SortedItems(view) ==
  LET keys == SortedKeys(view) IN [i \in 1..Len(keys) |-> <<keys[i], view[keys[i]]>>]

\* intercom_test.cases.hash_from_fields: a key that is equal for equal
\* selections of fields and different for different ones
HashFromFields(view) == view

-----------------------------------------------------------------------------
(* Database                                                                *)

\* a request_key that knows of no additional request keys
BasicKeysOnly(addnl_keys) == {"method", "url", "request body"}

\* Database._case_key.request_key: the keys it accepts
RequestKey(addnl_keys) == {"method", "url", "request body"} \cup addnl_keys

\* Database._case_key.value_lens
ValueLens(v) ==
  IF IsBytes(v) THEN [t |-> "tuple", v |-> <<"binary", StrOfBytes(v)>>] ELSE v

\* Database._case_key
CaseKey(req, addnl_keys) ==
  HashFromFields(FilteredDictView(req, RequestKey(addnl_keys),
                                  [k \in DOMAIN req |-> ValueLens(req[k])]))

\* a dict that keeps the first case it is given for a key
FirstResponses(cs, addnl_keys) ==
  LET RECURSIVE build(_, _)
      build(i, acc) ==
        IF i > Len(cs) THEN acc
        ELSE build(i + 1,
                   IF DictHas(acc, CaseKey(cs[i], addnl_keys)) THEN acc
                   ELSE DictSet(acc, CaseKey(cs[i], addnl_keys), cs[i]))
  IN build(1, <<>>)

\* dict((self._case_key(case), case) for case in cases)
BuildResponses(cs, addnl_keys) ==
  LET RECURSIVE build(_, _)
      build(i, acc) ==
        IF i > Len(cs) THEN acc
        ELSE build(i + 1, DictSet(acc, CaseKey(cs[i], addnl_keys), cs[i]))
  IN build(1, <<>>)

-----------------------------------------------------------------------------
(* Report classes                                                          *)

AvailableAdditionalFieldsReport(available_value_sets) ==
  [cls |-> "AvailableAdditionalFieldsReport",
   available_value_sets |-> available_value_sets]

AvailablePathsReport(test_case_groups) ==
  [cls |-> "AvailablePathsReport", test_case_groups |-> test_case_groups]

AvailableJsonRequestBodiesReport(diff_case_pairs) ==
  [cls |-> "AvailableJsonRequestBodiesReport",
   diff_case_pairs |-> diff_case_pairs]

AvailableScalarRequestBodiesReport(test_cases) ==
  [cls |-> "AvailableScalarRequestBodiesReport", test_cases |-> test_cases]

\* methods is turned into a set by the constructor
AvailableHttpMethodsReport(methods) ==
  [cls |-> "AvailableHttpMethodsReport", methods |-> Range(methods)]

AvailableQueryStringParamsetsReport(deltas) ==
  [cls |-> "AvailableQueryStringParamsetsReport", deltas |-> deltas]

-----------------------------------------------------------------------------
(* _Reporter.  The deadline is wall-clock time: k is the number of         *)
(* per-candidate comparisons of one call that the clock leaves room for    *)
(* before time.time() reaches self.deadline.                               *)

\* time.time() >= self.deadline, read just before the i-th comparison (i
\* counts from 1)
DeadlinePassed(k, i) == i > k

\* one entry of the log of comparisons: the tier, the candidate's index in
\* its list, and whether the deadline had passed when it was compared
Comparison(tier, index, k) ==
  [tier |-> tier, index |-> index, late |-> DeadlinePassed(k, index + 1)]

\* a call that returns report after these comparisons
Returns(report, log) == [kind |-> "report", report |-> report, compared |-> log]

\* a call that raises exc after these comparisons
Raises(exc, log) == [kind |-> "raise", exc |-> exc, compared |-> log]

\* the first n entries in the order they were pushed
FirstPushed(heap, n) == SubSeq(heap, 1, n)

\* heappop applied n times to a heap of entries <<key, i, ...>>, key a tuple
\* of ints: each pop takes out the least entry, and since no two entries
\* have the same i the order of the entries is that of (key, i)
HeapPopN(heap, n) ==
  LET RECURSIVE pop(_, _)
      pop(h, m) ==
        IF m = 0 THEN <<>>
        ELSE LET least == CHOOSE x \in 1..Len(h) :
                            \A y \in 1..Len(h) :
                              y = x \/ IntTupleLt(h[x][1] \o <<h[x][2]>>,
                                                  h[y][1] \o <<h[y][2]>>)
             IN <<h[least]>>
                \o pop(SubSeq(h, 1, least - 1) \o SubSeq(h, least + 1, Len(h)),
                       m - 1)
  IN pop(heap, n)

\* the number of entries a report keeps
TopN == 5

\* the log of the first n comparisons of a tier
Log(tier, n, k) == [i \in 1..n |-> Comparison(tier, i - 1, k)]

\* the candidates a loop gets to before `if time.time() >= self.deadline:
\* break`
BeforeDeadline(candidates, k) ==
  IF \E i \in 1..Len(candidates) : DeadlinePassed(k, i)
  THEN Take(candidates,
            (CHOOSE i \in 1..Len(candidates) :
               /\ DeadlinePassed(k, i)
               /\ \A j \in 1..(i - 1) : ~DeadlinePassed(k, j)) - 1)
  ELSE candidates

\* heappop(heap)[2:] for _ in range(min(5, len(heap)))
Closest(heap) == Columns(HeapPopN(heap, Min(TopN, Len(heap))), 3, 4)

\* the items left in the order they are given in
InGivenOrder(items, dists) == items

\* sorted(items, key=...), dists[i] being the key of items[i]
SortedByDistance(items, dists) ==
  PySort(items, [i \in 1..Len(items) |->
                   [j \in 1..Len(items) |-> dists[i] < dists[j]]])

\* sorted(FilteredDictView(case, key_filter=is_addnl_field).items()),
\* is_addnl_field accepting the keys of addnl_request_keys
AddnlFields(case, addnl_keys) ==
  SortedItems(FilteredDictView(
    case, addnl_keys \ {"method", "url", "request body"}, case))

\* possible_value_sets.append(fvals), whatever the list holds
AppendAlways(possible_value_sets, fvals) == Append(possible_value_sets, fvals)

\* if fvals not in possible_value_sets: possible_value_sets.append(fvals)
AppendNew(possible_value_sets, fvals) ==
  IF \E j \in 1..Len(possible_value_sets) : possible_value_sets[j] = fvals
  THEN possible_value_sets
  ELSE Append(possible_value_sets, fvals)

\* the loop that builds possible_value_sets
RECURSIVE PossibleValueSets(_, _, _)
PossibleValueSets(cs, addnl_keys, acc) ==
  IF cs = <<>> THEN acc
  ELSE PossibleValueSets(Tail(cs), addnl_keys,
                         AppendNew(acc, AddnlFields(Head(cs), addnl_keys)))

\* _get_additional_fields_mismatch from `if request_addnl_fields in
\* possible_value_sets` on
AdditionalFieldsMismatch(possible_value_sets, request_addnl_fields, k) ==
  IF \E j \in 1..Len(possible_value_sets) :
       possible_value_sets[j] = request_addnl_fields
  THEN [kind |-> "None"]
  ELSE Returns(
         AvailableAdditionalFieldsReport(
           Take(SortedByDistance(
                  possible_value_sets,
                  Tabulate([i \in 1..Len(possible_value_sets) |->
                              EditCount(Edits(request_addnl_fields,
                                              possible_value_sets[i]))])),
                TopN)),
         Log("addnl fields", Len(possible_value_sets), k))

\* _Reporter._get_additional_fields_mismatch: the report, or None
GetAdditionalFieldsMismatch(db, req, k) ==
  AdditionalFieldsMismatch(
    PossibleValueSets(DictGet(db.reqlines, Reqline(req)), db.add_request_keys,
                      <<>>),
    AddnlFields(req, db.add_request_keys), k)

\* _is_jsonic_body
IsJsonicBody(body) == body.t \notin {"str", "bytes"}

\* _Reporter.request_body, and case.get('request body')
RequestBody(req) == Get(req, "request body", NoneV)

\* the cases whose body is jsonic when reqbody is, and is not when reqbody
\* is not
SameRepresentationCases(cs, reqbody) ==
  SelectSeq(cs, LAMBDA case :
                  IsJsonicBody(RequestBody(case)) = IsJsonicBody(reqbody))

\* available_cases of _report_closest_request_bodies: the cases whose
\* type(case.get('request body')) == reqbody_type
AvailableCases(cs, reqbody) ==
  SelectSeq(cs, LAMBDA case : RequestBody(case).t = reqbody.t)

\* the entry heappush is given for the i-th candidate (i from 0)
JsonHeapEntry(i, diff, case) == <<EditDistance(diff), i, diff, case>>

\* near_reqbodies_heap after the loop over the candidates it gets to
NearReqbodiesHeap(request_body, reached) ==
  Tabulate([i \in 1..Len(reached) |->
              JsonHeapEntry(i - 1,
                            JsonDiff(request_body, RequestBody(reached[i])),
                            reached[i])])

\* the candidates (counted from 1) whose jcomp.diff raises
Raising(request_body, reached) ==
  {i \in 1..Len(reached) :
     JsonDiffRaises(request_body, RequestBody(reached[i]))}

\* the jsonic branch: the loop ends at the first candidate whose diff
\* raises
ClosestJsonBodies(request_body, reached, raising, k) ==
  IF raising # {}
  THEN Raises("AttributeError",
              Log("json body", CHOOSE i \in raising : \A j \in raising : i <= j,
                  k))
  ELSE Returns(AvailableJsonRequestBodiesReport(
                 Closest(NearReqbodiesHeap(request_body, reached))),
               Log("json body", Len(reached), k))

\* the other branch: every candidate is measured, whatever the deadline
ClosestScalarBodies(request_body, available_cases, k) ==
  Returns(
    AvailableScalarRequestBodiesReport(
      Take(SortedByDistance(
             available_cases,
             Tabulate([i \in 1..Len(available_cases) |->
                         Levenshtein(request_body.v,
                                     available_cases[i]["request body"].v)])),
           TopN)),
    Log("scalar body", Len(available_cases), k))

\* _report_closest_request_bodies, given available_cases
ClosestRequestBodies(request_body, available_cases, k) ==
  IF IsJsonicBody(request_body)
  THEN ClosestJsonBodies(request_body, BeforeDeadline(available_cases, k),
                         Raising(request_body,
                                 BeforeDeadline(available_cases, k)), k)
  ELSE ClosestScalarBodies(request_body, available_cases, k)

\* _Reporter._report_closest_request_bodies
ReportClosestRequestBodies(db, req, k) ==
  ClosestRequestBodies(
    RequestBody(req),
    AvailableCases(DictGet(db.reqlines, Reqline(req)), RequestBody(req)), k)

\* _Reporter._report_available_methods
ReportAvailableMethods(db, req) ==
  LET cs == DictGet(db.urls, RequestUrl(req))
  IN Returns(AvailableHttpMethodsReport([i \in 1..Len(cs) |-> HttpMethod(cs[i])]),
             <<>>)

\* the entry heappush is given for the i-th case of the path (i from 0)
QSHeapEntry(i, diff, case) == <<<<diff[1]>>, i, diff, case>>

\* near_urls_heap after the loop over the cases it gets to
NearUrlsHeap(request_qsparams, reached) ==
  Tabulate([i \in 1..Len(reached) |->
              QSHeapEntry(i - 1,
                          QSDiff(request_qsparams, RequestUrl(reached[i])[2]),
                          reached[i])])

\* _report_closest_query_params, given the cases the loop gets to
ClosestQueryParams(request_qsparams, reached, k) ==
  Returns(AvailableQueryStringParamsetsReport(
            Closest(NearUrlsHeap(request_qsparams, reached))),
          Log("query string", Len(reached), k))

\* _Reporter._report_closest_query_params
ReportClosestQueryParams(db, req, k) ==
  ClosestQueryParams(RequestUrl(req)[2],
                     BeforeDeadline(DictGet(db.paths, RequestUrl(req)[1]), k), k)

\* (path, db._paths[path]) for path in closest_paths
PathGroups(paths_index, closest_paths) ==
  [i \in 1..Len(closest_paths) |->
     <<closest_paths[i], DictGet(paths_index, closest_paths[i])>>]

\* the last lines of report, given db._paths: every path is measured,
\* whatever the deadline
ClosestPaths(paths_index, request_path, k) ==
  Returns(
    AvailablePathsReport(
      PathGroups(paths_index,
                 Take(SortedByDistance(
                        DictKeys(paths_index),
                        Tabulate([i \in 1..Len(paths_index) |->
                                    Levenshtein(paths_index[i][1],
                                                request_path)])),
                      TopN))),
    Log("path", Len(paths_index), k))

\* the last lines of _Reporter.report: the closest paths
ReportClosestPaths(db, req, k) ==
  ClosestPaths(db.paths, RequestUrlPath(req), k)

\* if addnl_fields_mismatch: return addnl_fields_mismatch; and what the
\* method goes on to return otherwise
OrElse(mismatch, otherwise) ==
  IF mismatch.kind = "None" THEN otherwise ELSE mismatch

\* a ladder that asks the url index before the reqline index
ReportUrlFirst(db, req, k) ==
  IF DictHas(db.urls, RequestUrl(req))
  THEN ReportAvailableMethods(db, req)
  ELSE IF DictHas(db.paths, RequestUrlPath(req))
  THEN ReportClosestQueryParams(db, req, k)
  ELSE ReportClosestPaths(db, req, k)

\* _Reporter.report
Report(db, req, k) ==
  IF DictHas(db.reqlines, Reqline(req))
  THEN OrElse(GetAdditionalFieldsMismatch(db, req, k),
              ReportClosestRequestBodies(db, req, k))
  ELSE IF DictHas(db.urls, RequestUrl(req))
  THEN ReportAvailableMethods(db, req)
  ELSE IF DictHas(db.paths, RequestUrlPath(req))
  THEN ReportClosestQueryParams(db, req, k)
  ELSE ReportClosestPaths(db, req, k)

-----------------------------------------------------------------------------
(* Report.as_jsonic_data                                                   *)

\* all the orders in which a set can be listed
Listings(S) == {s \in [1..Cardinality(S) -> S] : Range(s) = S}

\* JsonType.construct
Construct(jt) ==
  CASE jt = 1 -> NoneV
    [] jt = 2 -> PyVal("str", "")
    [] jt = 3 -> PyVal("int", 0)
    [] jt = 4 -> PyVal("float", 0)
    [] jt = 5 -> PyVal("list", <<>>)
    [] jt = 6 -> PyVal("dict", <<>>)

\* AvailableJsonRequestBodiesReport._json_struct_desc
JsonStructDesc(sig) ==
  IF sig[1] = LookupJsonType("list")
  THEN PyVal("list", [i \in 1..Len(sig[2]) |-> Construct(sig[2][i])])
  ELSE PyVal("dict", [name \in {e[1] : e \in sig[2]} |->
                Construct((CHOOSE e \in sig[2] : e[1] = name)[2])])

\* AvailableJsonRequestBodiesReport._json_mod_json
JsonModJson(mod) ==
  LET kept == [f \in DOMAIN mod \cap {"alt", "del"} |-> mod[f]]
      desc == IF \E f \in {"alt", "add"} : f \in DOMAIN mod
              THEN [f \in DOMAIN mod \cap {"to", "add"} |-> JsonStructDesc(mod[f])]
              ELSE <<>>
      set == IF "set" \in DOMAIN mod
             THEN [f \in {"set", "to"} |-> mod[f]]
             ELSE <<>>
  IN set @@ desc @@ kept

\* AvailableJsonRequestBodiesReport._json_diff_json: a function that falls
\* off its end returns None
JsonDiffJson(json_diff) ==
  IF json_diff[1] # <<>>
  THEN "alter substructures" :>
         [i \in 1..Len(json_diff[1]) |-> JsonModJson(json_diff[1][i])]
  ELSE IF json_diff[2] # <<>>
  THEN "rearrange substructures" :>
         [i \in 1..Len(json_diff[2]) |-> JsonModJson(json_diff[2][i])]
  ELSE IF json_diff[3] # <<>>
  THEN "alter scalar values" :>
         [i \in 1..Len(json_diff[3]) |-> JsonModJson(json_diff[3][i])]
  ELSE NoneV

\* base64.b64encode(body).decode('ASCII'): an encoding that can be undone
\* and is never the text it encodes
B64Encode(cs) == <<"base64">> \o cs

\* the body under 'request body', whatever its type
BodyVerbatim(body) == "request body" :> body

\* AvailableScalarRequestBodiesReport._body_json
BodyJson(body) ==
  IF IsBytes(body)
  THEN ("request body" :> PyVal("str", B64Encode(body.v)))
         @@ ("isBase64Encoded" :> PyVal("bool", TRUE))
  ELSE "request body" :> body

\* AvailableQueryStringParamsetsReport._qstring_diff_json
QStringDiffJson(qsparam_diff) ==
  ("params with differing value sequences" :> qsparam_diff[2])
    @@ ("mods" :> qsparam_diff[3])

\* case.get('description')
CaseDescription(case) == Get(case, "description", NoneV)

\* the attributes of the report under their own names
AsAttributes(report) == {[f \in DOMAIN report \ {"cls"} |-> report[f]]}

\* as_jsonic_data of each Report class: the set of values it can return
\* (list(set) lists a set in an order Python does not fix)
AsJsonicData(report) ==
  CASE report.cls = "AvailableAdditionalFieldsReport" ->
         {"available additional test case field value sets" :>
            [i \in 1..Len(report.available_value_sets) |->
               LET value_set == report.available_value_sets[i]
               IN [f \in {e[1] : e \in Range(value_set)} |->
                     (CHOOSE e \in Range(value_set) : e[1] = f)[2]]]}
    [] report.cls = "AvailablePathsReport" ->
         {"closest URL paths" :>
            [i \in 1..Len(report.test_case_groups) |->
               LET path == report.test_case_groups[i][1]
                   cs == SelectSeq(report.test_case_groups[i][2],
                                   LAMBDA case : "description" \in DOMAIN case)
               IN <<path, [j \in 1..Len(cs) |-> CaseDescription(cs[j])]>>]}
    [] report.cls = "AvailableJsonRequestBodiesReport" ->
         {"minimal JSON request body deltas" :>
            [i \in 1..Len(report.diff_case_pairs) |->
               ("case description" :> CaseDescription(report.diff_case_pairs[i][2]))
                 @@ ("diff" :> JsonDiffJson(report.diff_case_pairs[i][1]))]}
    [] report.cls = "AvailableScalarRequestBodiesReport" ->
         {"closest request bodies" :>
            [i \in 1..Len(report.test_cases) |->
               ("case description" :> CaseDescription(report.test_cases[i]))
                 @@ BodyJson(report.test_cases[i]["request body"])]}
    [] report.cls = "AvailableHttpMethodsReport" ->
         {"available HTTP methods" :> listing : listing \in Listings(report.methods)}
    [] report.cls = "AvailableQueryStringParamsetsReport" ->
         {"minimal query string deltas" :>
            [i \in 1..Len(report.deltas) |->
               ("case description" :> CaseDescription(report.deltas[i][2]))
                 @@ ("diff" :> QStringDiffJson(report.deltas[i][1]))]}

-----------------------------------------------------------------------------
(* Database: construction and the three calls                              *)

\* the Database object
DB == [cases |-> cases, add_request_keys |-> add_request_keys,
       responses |-> responses, reqlines |-> reqlines, urls |-> urls,
       paths |-> paths]

\* Database.get_case: the case, or None
GetCase(db, req) ==
  LET key == CaseKey(req, db.add_request_keys)
  IN IF DictHas(db.responses, key)
     THEN [kind |-> "case", case |-> DictGet(db.responses, key)]
     ELSE [kind |-> "None"]

\* Database.best_matches
BestMatches(db, req, k) == Report(db, req, k)

\* a copy of the case that is given no 'response status'
CopyOnly(case) == case

\* response.setdefault('response status', 200) on the copy dict(case)
WithResponseStatus(case) == case @@ ("response status" :> PyVal("int", 200))

\* response.pop('response status', None)
WithoutResponseStatus(data) ==
  [f \in DOMAIN data \ {"response status"} |-> data[f]]

\* Database.json_exchange: the values json.dump can be handed, or the
\* exception that best_matches raised
\* the two branches of json_exchange, given what get_case and best_matches
\* return (best_matches is only called when get_case returns None)
ExchangeReplies(hit, outcome) ==
  IF hit.kind = "case"
  THEN {[kind |-> "reply", reply |-> WithResponseStatus(hit.case),
         compared |-> <<>>]}
  ELSE IF outcome.kind = "raise" THEN {outcome}
  ELSE {[kind |-> "reply", reply |-> WithoutResponseStatus(data),
         compared |-> outcome.compared]
        : data \in AsJsonicData(outcome.report)}

JsonExchange(db, req, k) ==
  ExchangeReplies(GetCase(db, req), BestMatches(db, req, k))

\* The recorded cases are dict objects that the list of cases and the four
\* indices share: the i-th object is cases[i], and an index holds it where
\* it holds a value equal to the one the object had at construction.

\* the place in the catalogue of the object get_case returns (the last
\* case recorded under the key), or 0
HitAt(db, req) ==
  IF \E i \in 1..Len(db.cases) :
       CaseKey(db.cases[i], db.add_request_keys)
         = CaseKey(req, db.add_request_keys)
  THEN CHOOSE i \in 1..Len(db.cases) :
         /\ CaseKey(db.cases[i], db.add_request_keys)
              = CaseKey(req, db.add_request_keys)
         /\ \A j \in (i + 1)..Len(db.cases) :
              CaseKey(db.cases[j], db.add_request_keys)
                # CaseKey(req, db.add_request_keys)
  ELSE 0

\* response = case; response.setdefault('response status', 200): the
\* recorded dict itself is given the key
DefaultedInPlace(case) == WithResponseStatus(case)

\* what the recorded case holds after json_exchange returned it:
\* response = dict(case) is a new dict, and setdefault acts on that dict
StoredAfterExchange(case) == case

\* the recorded cases after json_exchange found the one at place hit
CasesAfterHit(cs, hit) ==
  IF hit = 0 THEN cs ELSE [cs EXCEPT ![hit] = StoredAfterExchange(cs[hit])]

\* the recorded cases after json_exchange(req)
CasesAfterExchange(db, req) == CasesAfterHit(db.cases, HitAt(db, req))

\* what a value v held by an index has become: the value of the object
\* it is, the catalogue having gone from before to after
ValueFrom(v, before, after) ==
  IF \E i \in 1..Len(before) : before[i] = v /\ after[i] # v
  THEN after[CHOOSE i \in 1..Len(before) : before[i] = v /\ after[i] # v]
  ELSE v

\* the exact index after the call: its keys are those computed at
\* construction
ValuesFrom(index, before, after) ==
  IF before = after THEN index
  ELSE [n \in 1..Len(index) |->
          <<index[n][1], ValueFrom(index[n][2], before, after)>>]

\* a grouping index after the call
GroupsFrom(index, before, after) ==
  IF before = after THEN index
  ELSE [n \in 1..Len(index) |->
          <<index[n][1],
            [m \in 1..Len(index[n][2]) |->
               ValueFrom(index[n][2][m], before, after)]>>]

-----------------------------------------------------------------------------
(* The catalogues and requests the model is run on                         *)

\* cases per catalogue of a broad family
MaxCases == 2

\* cases per catalogue of a family built to fill a report
MaxDeep == 6

\* calls made on one Database
MaxCalls == 1

\* calls made on one Database of the family built for sequences of calls
MaxSequence == 2

SeqsUpTo(S, n) == UNION {[1..m -> S] : m \in 0..n}

\* no entry under a key
Absent == [t |-> "absent", v |-> "absent"]

\* d with d[k] = v, or d itself when v is Absent
With(d, k, v) == IF v = Absent THEN d ELSE (k :> v) @@ d

MakeCase(method, url, body, story) ==
  With(With(With(With(<<>>, "story", story), "request body", body),
            "url", url), "method", method)

\* the urls of the catalogues and requests: /a, /a?x=1&y=2, /a?y=2&x=1,
\* /a?x=2, /a?x= (parse_qsl drops the pair), /ab, /b, /abc, /ac, /c, /cc,
\* /a?x=1&x=2, /a?x=2&x=1, /a?x=1&y=2&x=2, /a?x=1&x=2&y=2, /a?y=2&x=2&x=1
Url ==
  [A |-> PUrl(<<"/", "a">>, <<>>),
   Axy |-> PUrl(<<"/", "a">>, <<<<"x", "1">>, <<"y", "2">>>>),
   Ayx |-> PUrl(<<"/", "a">>, <<<<"y", "2">>, <<"x", "1">>>>),
   Ax2 |-> PUrl(<<"/", "a">>, <<<<"x", "2">>>>),
   Ablank |-> PUrl(<<"/", "a">>, <<<<"x", "">>>>),
   AB |-> PUrl(<<"/", "a", "b">>, <<>>),
   B |-> PUrl(<<"/", "b">>, <<>>),
   ABC |-> PUrl(<<"/", "a", "b", "c">>, <<>>),
   AC |-> PUrl(<<"/", "a", "c">>, <<>>),
   C |-> PUrl(<<"/", "c">>, <<>>),
   CC |-> PUrl(<<"/", "c", "c">>, <<>>),
   Ax12 |-> PUrl(<<"/", "a">>, <<<<"x", "1">>, <<"x", "2">>>>),
   Ax21 |-> PUrl(<<"/", "a">>, <<<<"x", "2">>, <<"x", "1">>>>),
   Axyx |-> PUrl(<<"/", "a">>, <<<<"x", "1">>, <<"y", "2">>, <<"x", "2">>>>),
   Axxy |-> PUrl(<<"/", "a">>, <<<<"x", "1">>, <<"x", "2">>, <<"y", "2">>>>),
   Ayxx |-> PUrl(<<"/", "a">>, <<<<"y", "2">>, <<"x", "2">>, <<"x", "1">>>>)]

\* JSON documents: {"a": 1}, {"a": 2}, {"a": 1.0};
\* R = [{"a": 1, "b": 1}, {"a": 1}] and documents that differ from it by
\* one scalar (S), the first and the last scalar (S2), three scalars (S3),
\* two locations (L), a presence (P)
Doc ==
  [D1 |-> PyVal("dict", "a" :> PyVal("int", 1)),
   D2 |-> PyVal("dict", "a" :> PyVal("int", 2)),
   D1f |-> PyVal("dict", "a" :> PyVal("float", 1)),
   R |-> PyVal("list", <<PyVal("dict", ("a" :> PyVal("int", 1)) @@ ("b" :> PyVal("int", 1))),
                         PyVal("dict", "a" :> PyVal("int", 1))>>),
   S |-> PyVal("list", <<PyVal("dict", ("a" :> PyVal("int", 2)) @@ ("b" :> PyVal("int", 1))),
                         PyVal("dict", "a" :> PyVal("int", 1))>>),
   S2 |-> PyVal("list", <<PyVal("dict", ("a" :> PyVal("int", 2)) @@ ("b" :> PyVal("int", 1))),
                          PyVal("dict", "a" :> PyVal("int", 2))>>),
   S3 |-> PyVal("list", <<PyVal("dict", ("a" :> PyVal("int", 2)) @@ ("b" :> PyVal("int", 2))),
                          PyVal("dict", "a" :> PyVal("int", 2))>>),
   L |-> PyVal("list", <<PyVal("dict", "a" :> PyVal("int", 1)),
                         PyVal("dict", ("a" :> PyVal("int", 1)) @@ ("b" :> PyVal("int", 1)))>>),
   P |-> PyVal("list", <<PyVal("dict", "a" :> PyVal("int", 1))>>),
   T00 |-> PyVal("list", <<PyVal("dict", "a" :> PyVal("int", 1)),
                           PyVal("dict", "a" :> PyVal("int", 1))>>),
   T10 |-> PyVal("list", <<PyVal("dict", "a" :> PyVal("str", "x")),
                           PyVal("dict", "a" :> PyVal("int", 1))>>),
   Rx |-> PyVal("list", <<PyVal("dict", ("a" :> PyVal("int", 1)) @@ ("b" :> PyVal("int", 1))),
                          PyVal("dict", "a" :> PyVal("str", "x"))>>),
   T01 |-> PyVal("list", <<PyVal("dict", "a" :> PyVal("int", 1)),
                           PyVal("dict", "a" :> PyVal("str", "x"))>>),
   XY |-> PyVal("list", <<PyVal("dict", "a" :> PyVal("int", 1)),
                          PyVal("dict", "b" :> PyVal("int", 1))>>),
   YX |-> PyVal("list", <<PyVal("dict", "b" :> PyVal("int", 1)),
                          PyVal("dict", "a" :> PyVal("int", 1))>>),
   N |-> PyVal("dict", ("b" :> PyVal("list", <<PyVal("int", 1), NoneV>>))
                         @@ ("a" :> PyVal("dict", "a" :> PyVal("int", 2)))),
   B |-> PyVal("list", <<PyVal("int", 1), PyVal("bool", TRUE)>>)]

\* bodies of every type: absent, null, numbers, booleans, lists, dicts,
\* strings and byte sequences
Bodies ==
  {Absent, NoneV, PyVal("int", 1), PyVal("float", 1), PyVal("bool", TRUE),
   PyVal("bool", FALSE), PyVal("list", <<PyVal("int", 1)>>),
   PyVal("list", <<PyVal("float", 1)>>), Doc.D1,
   PyVal("str", <<"a", "b">>), PyVal("str", <<"b">>),
   PyVal("bytes", <<"a", "b">>), PyVal("bytes", <<"a">>)}

\* Each family: the cases its catalogues are made of, the longest
\* catalogue, the values of add_request_keys, and the requests made.
\* In turn: routing (method, url, query string, path); bodies of every
\* type; additional fields and response status; ranking of JSON bodies;
\* more than TopN JSON bodies; more than TopN query strings; more than
\* TopN paths, no case recorded twice; cases with and without a
\* description; two additional fields; more than TopN sets of values of
\* the additional fields; more than TopN string bodies; several calls in
\* a row on one Database; query strings that give a name several values.
Families ==
  <<[cases |-> {MakeCase(m, u, Absent, Absent)
                : m \in {PyVal("str", "get"), PyVal("str", "post"),
                         PyVal("str", "GET")},
                  u \in {Url.A, Url.Axy, Url.Ayx, Url.AB}}
               \cup {MakeCase(Absent, Url.A, Absent, Absent)},
     max |-> MaxCases,
     keys |-> {{}}, repeats |-> TRUE, calls |-> MaxCalls,
     requests |-> {MakeCase(m, u, Absent, Absent)
                   : m \in {PyVal("str", "get"), PyVal("str", "post"),
                            PyVal("str", "GET")},
                     u \in {Url.A, Url.Axy, Url.Ablank, Url.B}}
                  \cup {MakeCase(Absent, Url.A, Absent, Absent)}],
    [cases |-> {MakeCase(PyVal("str", "post"), Url.A, b, Absent) : b \in Bodies},
     max |-> MaxCases,
     keys |-> {{}}, repeats |-> TRUE, calls |-> MaxCalls,
     requests |-> {MakeCase(PyVal("str", "post"), Url.A, b, Absent)
                   : b \in {Absent, NoneV, PyVal("int", 1), PyVal("bool", TRUE),
                            PyVal("list", <<PyVal("int", 1)>>), Doc.D1,
                            PyVal("str", <<"a", "b">>),
                            PyVal("bytes", <<"a", "b">>)}}],
    [cases |-> {With(MakeCase(PyVal("str", "get"), Url.A, b, st),
                     "response status", rs)
                : b \in {Doc.D1, Doc.D2},
                  st \in {Absent, PyVal("str", "A"), PyVal("str", "B")},
                  rs \in {Absent, PyVal("int", 404)}},
     max |-> MaxCases,
     keys |-> {{}, {"story"}}, repeats |-> TRUE, calls |-> MaxCalls,
     requests |-> {With(MakeCase(PyVal("str", "get"), Url.A, Doc.D1, st),
                        "description", d)
                   : st \in {Absent, PyVal("str", "A"), PyVal("str", "B")},
                     d \in {Absent, PyVal("str", "d")}}],
    [cases |-> {MakeCase(PyVal("str", "post"), Url.A, b, Absent)
                : b \in {Doc.S, Doc.S2, Doc.S3, Doc.L, Doc.P}},
     max |-> MaxCases + 1,
     keys |-> {{}}, repeats |-> TRUE, calls |-> MaxCalls,
     requests |-> {MakeCase(PyVal("str", "post"), Url.A, Doc.R, Absent)}],
    [cases |-> {MakeCase(PyVal("str", "post"), Url.A, b, Absent)
                : b \in {Doc.S, Doc.P}},
     max |-> MaxDeep,
     keys |-> {{}}, repeats |-> TRUE, calls |-> MaxCalls,
     requests |-> {MakeCase(PyVal("str", "post"), Url.A, Doc.R, Absent)}],
    [cases |-> {MakeCase(PyVal("str", "get"), u, Absent, Absent)
                : u \in {Url.Axy, Url.Ax2}},
     max |-> MaxDeep,
     keys |-> {{}}, repeats |-> TRUE, calls |-> MaxCalls,
     requests |-> {MakeCase(PyVal("str", "get"), Url.A, Absent, Absent)}],
    [cases |-> {MakeCase(PyVal("str", "get"), u, Absent, Absent)
                : u \in {Url.A, Url.AB, Url.ABC, Url.AC, Url.C, Url.CC}},
     max |-> MaxDeep,
     keys |-> {{}}, repeats |-> FALSE, calls |-> MaxCalls,
     requests |-> {MakeCase(PyVal("str", "get"), Url.B, Absent, Absent)}],
    [cases |-> {With(MakeCase(PyVal("str", "get"), u, Absent, Absent),
                     "description", d)
                : u \in {Url.A, Url.Ax2, Url.AB},
                  d \in {Absent, PyVal("str", "d1"), PyVal("str", "d2")}},
     max |-> MaxCases,
     keys |-> {{}}, repeats |-> TRUE, calls |-> MaxCalls,
     requests |-> {MakeCase(PyVal("str", "get"), Url.B, Absent, Absent)}],
    [cases |-> {With(MakeCase(PyVal("str", "get"), Url.A, Absent, st), "tag", tg)
                : st \in {Absent, PyVal("str", "A"), PyVal("str", "B")},
                  tg \in {Absent, PyVal("str", "x"), PyVal("str", "y")}},
     max |-> MaxCases,
     keys |-> {{"story", "tag"}}, repeats |-> TRUE, calls |-> MaxCalls,
     requests |-> {With(MakeCase(PyVal("str", "get"), Url.A, Absent, st), "tag", tg)
                   : st \in {Absent, PyVal("str", "A")},
                     tg \in {Absent, PyVal("str", "x")}}],
    [cases |-> {With(MakeCase(PyVal("str", "get"), Url.A, Absent, v[1]), "tag", v[2])
                : v \in {<<Absent, Absent>>,
                         <<PyVal("str", "A"), Absent>>,
                         <<PyVal("str", "A"), PyVal("str", "y")>>,
                         <<PyVal("str", "B"), PyVal("str", "x")>>,
                         <<PyVal("str", "B"), PyVal("str", "y")>>,
                         <<Absent, PyVal("str", "x")>>}},
     max |-> MaxDeep,
     keys |-> {{"story", "tag"}}, repeats |-> FALSE, calls |-> MaxCalls,
     requests |-> {With(MakeCase(PyVal("str", "get"), Url.A, Absent,
                                 PyVal("str", "A")), "tag", PyVal("str", "x"))}],
    [cases |-> {MakeCase(PyVal("str", "post"), Url.A, PyVal("str", b), Absent)
                : b \in {<<"a">>, <<"b">>, <<"b", "c", "c">>}},
     max |-> MaxDeep,
     keys |-> {{}}, repeats |-> TRUE, calls |-> MaxCalls,
     requests |-> {MakeCase(PyVal("str", "post"), Url.A,
                            PyVal("str", <<"a", "b">>), Absent)}],
    [cases |-> {With(MakeCase(PyVal("str", "post"), Url.B, Absent, Absent),
                     "response status", rs)
                : rs \in {Absent, PyVal("int", 404)}}
               \cup {MakeCase(PyVal("str", "post"), Url.AB, Absent, Absent)},
     max |-> MaxCases,
     keys |-> {{}}, repeats |-> TRUE, calls |-> MaxSequence,
     requests |-> {MakeCase(PyVal("str", "post"), Url.B, Absent, Absent),
                   MakeCase(PyVal("str", "get"), Url.B, Absent, Absent),
                   MakeCase(PyVal("str", "post"), Url.C, Absent, Absent)}],
    [cases |-> {MakeCase(PyVal("str", "get"), u, Absent, Absent)
                : u \in {Url.Axy, Url.Ayx, Url.Ax12, Url.Ax21, Url.Axyx,
                         Url.Ayxx, Url.Ax2}},
     max |-> MaxCases,
     keys |-> {{}}, repeats |-> TRUE, calls |-> MaxCalls,
     requests |-> {MakeCase(PyVal("str", "get"), u, Absent, Absent)
                   : u \in {Url.Axy, Url.Ax12, Url.Ax21, Url.Axxy}}]>>

\* the Database is one of family g
InFamily(g) ==
  /\ Len(cases) <= Families[g].max
  /\ add_request_keys \in Families[g].keys
  /\ Range(cases) \subseteq Families[g].cases
  /\ Families[g].repeats \/ Cardinality(Range(cases)) = Len(cases)

\* the requests made of a Database: those of the families it is drawn from
Requests ==
  UNION {Families[f].requests : f \in {g \in 1..Len(Families) : InFamily(g)}}

\* the number of calls made on a Database: the most its families allow
CallLimit ==
  IF \E f \in 1..Len(Families) : Families[f].calls > MaxCalls /\ InFamily(f)
  THEN Max(MaxCalls, MaxSequence)
  ELSE MaxCalls

\* json.loads(request_json): JSON text holds no byte sequence
FromJson(req) == \A f \in DOMAIN req : ~IsBytes(req[f])

-----------------------------------------------------------------------------
(* The state machine                                                       *)

\* Database.__init__(cases, add_request_keys=...)
Init ==
  /\ \E f \in 1..Len(Families) :
       /\ cases \in SeqsUpTo(Families[f].cases, Families[f].max)
       /\ Families[f].repeats \/ Cardinality(Range(cases)) = Len(cases)
       /\ add_request_keys \in Families[f].keys
  /\ responses = BuildResponses(cases, add_request_keys)
  /\ reqlines = GroupDict([i \in 1..Len(cases) |-> Reqline(cases[i])], cases)
  /\ urls = GroupDict([i \in 1..Len(cases) |-> RequestUrl(cases[i])], cases)
  /\ paths = GroupDict([i \in 1..Len(cases) |-> RequestUrlPath(cases[i])],
                       cases)
  /\ op = "__init__"
  /\ request = NoneV
  /\ deadline = 0
  /\ result = [kind |-> "None"]
  /\ compared = <<>>
  /\ calls = 0
  /\ serverless = <<>>
  /\ routing = <<>>

\* a call ends: what it returned or raised, and the comparisons it made
Completes(outcome) ==
  /\ result' = [f \in DOMAIN outcome \ {"compared"} |-> outcome[f]]
  /\ compared' = IF "compared" \in DOMAIN outcome THEN outcome.compared ELSE <<>>

\* db.get_case(req)
GetCaseCall(req) ==
  /\ calls < CallLimit
  /\ calls' = calls + 1
  /\ op' = "get_case"
  /\ request' = req
  /\ UNCHANGED deadline
  /\ Completes(GetCase(DB, req))
  /\ UNCHANGED <<cases, add_request_keys, responses, reqlines, urls, paths>>
  /\ UNCHANGED <<serverless, routing>>

\* db.best_matches(req, timeout=...), the deadline passing after k
\* comparisons
BestMatchesCall(req, k) ==
  /\ calls < CallLimit
  /\ calls' = calls + 1
  /\ op' = "best_matches"
  /\ request' = req
  /\ deadline' = k
  /\ Completes(BestMatches(DB, req, k))
  /\ UNCHANGED <<cases, add_request_keys, responses, reqlines, urls, paths>>
  /\ UNCHANGED <<serverless, routing>>

\* db.json_exchange(request_json, reply_stream): reply is the value whose
\* JSON text the stream receives
JsonExchangeCall(req, k) ==
  /\ calls < CallLimit
  /\ calls' = calls + 1
  /\ FromJson(req)
  /\ op' = "json_exchange"
  /\ request' = req
  /\ deadline' = k
  /\ \E outcome \in JsonExchange(DB, req, k) : Completes(outcome)
  /\ cases' = CasesAfterExchange(DB, req)
  /\ responses' = ValuesFrom(responses, cases, cases')
  /\ reqlines' = GroupsFrom(reqlines, cases, cases')
  /\ urls' = GroupsFrom(urls, cases, cases')
  /\ paths' = GroupsFrom(paths, cases, cases')
  /\ UNCHANGED <<add_request_keys, serverless, routing>>

Next ==
  \/ \E req \in Requests : GetCaseCall(req)
  \/ \E req \in Requests, k \in 0..Len(cases) : BestMatchesCall(req, k)
  \/ \E req \in Requests, k \in 0..Len(cases) : JsonExchangeCall(req, k)

Spec == Init /\ [][Next]_vars

-----------------------------------------------------------------------------
(* JsonComparer used on its own: jcomp = JsonComparer(ref), then          *)
(* jcomp.diff(case); request holds ref, and no Database is involved        *)

\* the documents compared
Documents ==
  {NoneV, PyVal("int", 1), PyVal("int", 2), PyVal("float", 1),
   PyVal("str", "a"), PyVal("bool", TRUE), PyVal("list", <<PyVal("int", 1)>>),
   PyVal("list", <<PyVal("float", 1)>>), Doc.D1, Doc.D1f, Doc.D2,
   Doc.R, Doc.S, Doc.S3, Doc.L, Doc.P, Doc.T00, Doc.T10, Doc.T01, Doc.Rx, Doc.XY,
   Doc.YX, Doc.N, Doc.B}

\* JsonComparer(ref)
DiffInit ==
  /\ cases = <<>>
  /\ add_request_keys = {}
  /\ responses = <<>>
  /\ reqlines = <<>>
  /\ urls = <<>>
  /\ paths = <<>>
  /\ op = "JsonComparer"
  /\ request \in Documents
  /\ deadline = 0
  /\ result = [kind |-> "None"]
  /\ compared = <<>>
  /\ calls = 0
  /\ serverless = <<>>
  /\ routing = <<>>

\* jcomp.diff(case)
DiffCall(case) ==
  /\ calls < MaxCalls
  /\ calls' = calls + 1
  /\ op' = "diff"
  /\ result' = IF JsonDiffRaises(request, case)
               THEN [kind |-> "raise", exc |-> "AttributeError", case |-> case]
               ELSE [kind |-> "delta", delta |-> JsonDiff(request, case),
                     case |-> case]
  /\ UNCHANGED <<cases, add_request_keys, responses, reqlines, urls, paths,
                 request, deadline, compared, serverless, routing>>

DiffNext == \E case \in Documents : DiffCall(case)

DiffSpec == DiffInit /\ [][DiffNext]_vars

-----------------------------------------------------------------------------
(* aws_http.ServerlessHandlerMapper.  A path template is held as the       *)
(* segments PATH_TEMPLATE_SEGMENT finds in it one after the other, a       *)
(* request path as the segments between its slashes; the value a {name+}   *)
(* parameter captures, the rest of the path, is held as the segments left  *)

\* a literal segment of a path template
Lit(s) == [lit |-> s]

\* OpenAPIPathMatcher.Param: "{name}", or "{name+}" when plus
Param(name, plus) == [param |-> name, plus |-> plus]

\* isinstance(seg, OpenAPIPathMatcher.Param)
IsParam(seg) == "param" \in DOMAIN seg

\* Param.isvartail
IsVarTail(seg) == seg.plus

\* OpenAPIPathMatcher.__init__ raises InvalidPathTemplate: a {name+}
\* parameter that is not the last segment
InvalidPathTemplate(route_path) ==
  \E i \in 1..(Len(route_path) - 1) :
    IsParam(route_path[i]) /\ IsVarTail(route_path[i])

\* OpenAPIPathMatcher(route_method, route_path)
OpenAPIPathMatcher(route_method, route_path) ==
  [method |-> route_method, path_segments |-> route_path]

\* LambdaHandlerProxy(handler, resource=path_template)
LambdaHandlerProxy(handler, resource) ==
  [handler |-> handler, resource |-> resource]

\* what a matcher returns: None, or the dict of captured parameters
NoMatch == [matched |-> FALSE]

Captured(captured_params) == [matched |-> TRUE, params |-> captured_params]

\* the loop of OpenAPIPathMatcher.__call__ from template segment n on,
\* match_start segments of the request path being consumed
RECURSIVE MatchSegments(_, _, _, _, _)
MatchSegments(template_segments, n, request_path, match_start, captured_params) ==
  IF n > Len(template_segments)
  THEN IF match_start < Len(request_path) THEN NoMatch
       ELSE Captured(captured_params)
  ELSE LET template_seg == template_segments[n]
       IN IF IsParam(template_seg) /\ IsVarTail(template_seg)
          THEN MatchSegments(
                 template_segments, n + 1, request_path, Len(request_path),
                 (template_seg.param
                    :> SubSeq(request_path, match_start + 1, Len(request_path)))
                   @@ captured_params)
          ELSE IF match_start >= Len(request_path) THEN NoMatch
          ELSE IF IsParam(template_seg)
          THEN MatchSegments(
                 template_segments, n + 1, request_path, match_start + 1,
                 (template_seg.param :> request_path[match_start + 1])
                   @@ captured_params)
          ELSE IF request_path[match_start + 1] # template_seg.lit THEN NoMatch
          ELSE MatchSegments(template_segments, n + 1, request_path,
                             match_start + 1, captured_params)

\* OpenAPIPathMatcher.__call__
MatcherCall(matcher, request_method, request_path) ==
  IF matcher.method # "*" /\ request_method # matcher.method THEN NoMatch
  ELSE MatchSegments(matcher.path_segments, 1, request_path, 0, <<>>)

\* _httpApi_routes: the (method, path_template) pairs of an 'events' list.
\* An httpApi value is '*', a string "METHOD path" or a dict
HttpApiRoutes(event_list) ==
  Concat([i \in 1..Len(event_list) |->
    IF "httpApi" \notin DOMAIN event_list[i] THEN <<>>
    ELSE LET http_event == event_list[i]["httpApi"]
         IN IF http_event.form = "*"
            THEN <<<<"*", <<Param("proxy", TRUE)>>>>>>
            ELSE IF http_event.form = "str"
            THEN <<<<Lower(http_event.method), http_event.path>>>>
            ELSE <<<<http_event.method, http_event.path>>>>])

\* _serverless_function_routes: (request matcher, handler) pairs
ServerlessFunctionRoutes(fn_info) ==
  LET routes == HttpApiRoutes(fn_info.events)
  IN [i \in 1..Len(routes) |->
        <<OpenAPIPathMatcher(routes[i][1], routes[i][2]),
          LambdaHandlerProxy(fn_info.handler, routes[i][2])>>]

\* seg_sort_key
SegSortKey(seg) == IF IsParam(seg) THEN <<1, "">> ELSE <<0, seg.lit>>

\* _routing_entry_sort_key
RoutingEntrySortKey(route_entry) ==
  [i \in 1..Len(route_entry[1].path_segments) |->
     SegSortKey(route_entry[1].path_segments[i])]

\* key < key, as Python compares tuples of (int, str) tuples
RECURSIVE SortKeyLt(_, _)
SortKeyLt(k1, k2) ==
  IF k2 = <<>> THEN FALSE
  ELSE IF k1 = <<>> THEN TRUE
  ELSE IF Head(k1) = Head(k2) THEN SortKeyLt(Tail(k1), Tail(k2))
  ELSE IF Head(k1)[1] # Head(k2)[1] THEN Head(k1)[1] < Head(k2)[1]
  ELSE StrLt(Head(k1)[2], Head(k2)[2])

\* the routes of the config in the order routing.extend collects them
CollectedRoutes(config) ==
  Concat([i \in 1..Len(config) |-> ServerlessFunctionRoutes(config[i])])

\* a template of the config makes OpenAPIPathMatcher raise
BuildRoutingRaises(config) ==
  \E i \in 1..Len(config) :
    \E j \in 1..Len(HttpApiRoutes(config[i].events)) :
      InvalidPathTemplate(HttpApiRoutes(config[i].events)[j][2])

\* the routes left in the order of the config
ConfigOrder(entries) == entries

\* routing.sort(key=_routing_entry_sort_key)
SortedRouting(entries) ==
  PySort(entries,
         [i \in 1..Len(entries) |->
            [j \in 1..Len(entries) |->
               SortKeyLt(RoutingEntrySortKey(entries[i]),
                         RoutingEntrySortKey(entries[j]))]])

\* ServerlessHandlerMapper._build_routing
BuildRouting(config) == SortedRouting(CollectedRoutes(config))

\* self._routing unset, and set
NoRouting == [built |-> FALSE]

Routing(entries) == [built |-> TRUE, entries |-> entries]

\* the loop of map: the first entry whose matcher accepts, or NoRoute
RECURSIVE MapFrom(_, _, _, _)
MapFrom(entries, n, method, path) ==
  IF n > Len(entries)
  THEN [kind |-> "raise", exc |-> "NoRoute", method |-> method, path |-> path]
  ELSE LET path_params == MatcherCall(entries[n][1], method, path)
       IN IF path_params.matched
          THEN [kind |-> "handler", handler |-> entries[n][2],
                path_params |-> path_params.params]
          ELSE MapFrom(entries, n + 1, method, path)

\* ServerlessHandlerMapper.map, given self._routing
Map(entries, method, path) == MapFrom(entries, 1, method, path)

\* the function map returns, called:
\* handler(dict(event, pathParameters=path_params), context)
CallHandler(mapped, event) ==
  [kind |-> "called", handler |-> mapped.handler,
   event |-> ("pathParameters" :> mapped.path_params) @@ event]

\* the most functions of a config
MaxRoutes == 2

\* path templates: /a, /{x}, /a/b, /a/{y}, /{x}/b, /{x}/{y}, /a/{proxy+},
\* /{proxy+}, and /{proxy+}/a, which is not valid
Templates ==
  {<<Lit("a")>>, <<Param("x", FALSE)>>, <<Lit("a"), Lit("b")>>,
   <<Lit("a"), Param("y", FALSE)>>, <<Param("x", FALSE), Lit("b")>>,
   <<Param("x", FALSE), Param("y", FALSE)>>, <<Lit("a"), Param("proxy", TRUE)>>,
   <<Param("proxy", TRUE)>>, <<Param("proxy", TRUE), Lit("a")>>}

\* entries of an 'events' list: httpApi given as a dict, as the string
\* "GET /a/b", as '*', and an entry without httpApi
EventEntries ==
  {"httpApi" :> [form |-> "dict", method |-> "get", path |-> t] : t \in Templates}
    \cup {"httpApi" :> [form |-> "dict", method |-> "*", path |-> t]
          : t \in {<<Lit("a")>>, <<Param("x", FALSE)>>,
                   <<Lit("a"), Param("y", FALSE)>>}}
    \cup {"httpApi" :> [form |-> "str", method |-> "GET",
                        path |-> <<Lit("a"), Lit("b")>>],
          "httpApi" :> [form |-> "*"],
          "schedule" :> [form |-> "str"]}

\* 'events' lists: one entry, or the three of a function bound to /a and
\* to /a/{y}
EventLists ==
  {<<e>> : e \in EventEntries}
    \cup {<<"httpApi" :> [form |-> "dict", method |-> "get", path |-> <<Lit("a")>>],
            "schedule" :> [form |-> "str"],
            "httpApi" :> [form |-> "str", method |-> "GET",
                          path |-> <<Lit("a"), Param("y", FALSE)>>]>>}

\* the handler of the n-th function
HandlerName(n) == <<"h1", "h2", "h3", "h4">>[n]

\* serverless['functions'].values(): up to MaxRoutes functions
Configs ==
  {[i \in 1..Len(es) |-> [handler |-> HandlerName(i), events |-> es[i]]]
   : es \in SeqsUpTo(EventLists, MaxRoutes)}

\* the requests mapped
MapRequests ==
  {<<m, p>> : m \in {"get", "post"},
              p \in {<<"a">>, <<"b">>, <<"a", "b">>, <<"b", "b">>, <<"a", "a">>,
                     <<"a", "b", "a">>}}

\* the events handed to the function map returned
Events == {<<>>, "pathParameters" :> ("x" :> "old"), "rawPath" :> "/a"}

\* ServerlessHandlerMapper(project_dir)
MapInit ==
  /\ cases = <<>>
  /\ add_request_keys = {}
  /\ responses = <<>>
  /\ reqlines = <<>>
  /\ urls = <<>>
  /\ paths = <<>>
  /\ op = "ServerlessHandlerMapper"
  /\ request = <<>>
  /\ deadline = 0
  /\ result = [kind |-> "None"]
  /\ compared = <<>>
  /\ calls = 0
  /\ serverless \in Configs
  /\ routing = NoRouting

\* service.map(method, path)
MapCall(method, path) ==
  /\ calls < MaxCalls
  /\ calls' = calls + 1
  /\ op' = "map"
  /\ request' = <<method, path>>
  /\ IF ~routing.built /\ BuildRoutingRaises(serverless)
     THEN /\ result' = [kind |-> "raise", exc |-> "InvalidPathTemplate"]
          /\ UNCHANGED routing
     ELSE /\ routing' = IF routing.built THEN routing
                        ELSE Routing(BuildRouting(serverless))
          /\ result' = Map(routing'.entries, method, path)
  /\ UNCHANGED <<cases, add_request_keys, responses, reqlines, urls, paths,
                 deadline, compared, serverless>>

\* the function map returned is called with an event
HandlerCall(event) ==
  /\ op = "map"
  /\ result.kind = "handler"
  /\ op' = "handler"
  /\ result' = CallHandler(result, event)
  /\ UNCHANGED <<cases, add_request_keys, responses, reqlines, urls, paths,
                 request, deadline, compared, calls, serverless, routing>>

MapNext ==
  \/ \E r \in MapRequests : MapCall(r[1], r[2])
  \/ \E event \in Events : HandlerCall(event)

MapSpec == MapInit /\ [][MapNext]_vars

-----------------------------------------------------------------------------
(* aws_http.confirm_expected_response.  The text of a response body is     *)
(* held as what it is the text of: [text |-> s] for plain text,            *)
(* [json |-> document] for json.dumps(document) and [base64 |-> bytes]     *)
(* for b64encode(bytes); 'response headers' is the sequence of its         *)
(* (name, value) items, a dict giving every name once                      *)

\* the function returns
Pass == [kind |-> "pass"]

\* raise AssertionError(message)
AssertionError(message) ==
  [kind |-> "raise", exc |-> "AssertionError", message |-> message]

\* raise UnexpectedResponseBody(actual, expected), an AssertionError
UnexpectedResponseBody(actual, expected) ==
  [kind |-> "raise", exc |-> "UnexpectedResponseBody", actual |-> actual,
   expected |-> expected]

\* json.loads or b64decode raises exc, a ValueError
ValueError(exc) == [kind |-> "raise", exc |-> exc]

\* _confirm_response_code
ConfirmResponseCode(actual, expected) ==
  IF actual = expected THEN Pass
  ELSE AssertionError(<<"expected HTTP response code", expected, actual>>)

\* the first loop of _confirm_response_headers from item n on: the errors
\* and mv_header_counts it ends with
RECURSIVE ExpectedHeadersLoop(_, _, _, _, _, _)
ExpectedHeadersLoop(expected_headers, n, actual_headers, actual_mv_headers, errors, mv_header_counts) ==
  IF n > Len(expected_headers)
  THEN [errors |-> errors, mv_header_counts |-> mv_header_counts]
  ELSE LET name == expected_headers[n][1]
           value == expected_headers[n][2]
       IN IF name \in DOMAIN actual_headers /\ actual_headers[name] = value
          THEN ExpectedHeadersLoop(expected_headers, n + 1, actual_headers,
                                   actual_mv_headers, errors, mv_header_counts)
          ELSE IF /\ name \in DOMAIN actual_mv_headers
                  /\ value \in Range(actual_mv_headers[name])
          THEN ExpectedHeadersLoop(
                 expected_headers, n + 1, actual_headers, actual_mv_headers,
                 errors,
                 DictSet(mv_header_counts, name,
                         1 + IF DictHas(mv_header_counts, name)
                             THEN DictGet(mv_header_counts, name) ELSE 0))
          ELSE ExpectedHeadersLoop(
                 expected_headers, n + 1, actual_headers, actual_mv_headers,
                 Append(errors, <<"header not found with value", name, value>>),
                 mv_header_counts)

\* expected_count once the body of the second loop has looked at
\* actual_headers
ExpectedCount(name, expected_count, actual_headers, actual_mv_headers) ==
  IF name \notin DOMAIN actual_headers THEN expected_count
  ELSE IF actual_headers[name] \notin Range(actual_mv_headers[name])
  THEN expected_count - 1
  ELSE expected_count

\* the errors the second loop of _confirm_response_headers appends
CountErrors(mv_header_counts, actual_headers, actual_mv_headers) ==
  Concat([n \in 1..Len(mv_header_counts) |->
    LET name == mv_header_counts[n][1]
        expected_count == ExpectedCount(name, mv_header_counts[n][2],
                                        actual_headers, actual_mv_headers)
        actual_count == Len(actual_mv_headers[name])
    IN IF actual_count # expected_count
       THEN <<<<"multi-valued header appeared with value(s), but expected",
                name, actual_count, expected_count>>>>
       ELSE <<>>])

\* the end of _confirm_response_headers
RaiseErrors(errors) ==
  IF Len(errors) = 1 THEN AssertionError(errors[1])
  ELSE IF errors # <<>> THEN AssertionError(<<"multiple errors">> \o errors)
  ELSE Pass

\* _confirm_response_headers
ConfirmResponseHeaders(actual_headers, actual_mv_headers, expected_headers) ==
  LET first == ExpectedHeadersLoop(expected_headers, 1, actual_headers,
                                   actual_mv_headers, <<>>, <<>>)
  IN RaiseErrors(first.errors
                   \o CountErrors(first.mv_header_counts, actual_headers,
                                  actual_mv_headers))

\* _confirm_response_body
ConfirmResponseBody(handler_result, expected) ==
  IF "body" \notin DOMAIN handler_result
  THEN AssertionError(<<"handler result MUST have a 'body'">>)
  ELSE LET body == handler_result["body"]
       IN IF expected.t = "str"
          THEN IF body = [text |-> expected.v] THEN Pass
               ELSE UnexpectedResponseBody(body, expected)
          ELSE IF expected.t = "bytes"
          THEN IF ~Get(handler_result, "isBase64Encoded", FALSE)
               THEN AssertionError(<<"handler result was not Base64 encoded">>)
               ELSE IF "base64" \notin DOMAIN body THEN ValueError("binascii.Error")
               ELSE IF body.base64 = expected.v THEN Pass
               ELSE UnexpectedResponseBody(body.base64, expected)
          ELSE IF "json" \notin DOMAIN body THEN ValueError("JSONDecodeError")
          ELSE IF body.json = expected THEN Pass
          ELSE UnexpectedResponseBody(body.json, expected)

\* the steps of confirm_expected_response, each taken if the one before
\* returned
AndThen(first, then) == IF first.kind = "pass" THEN then ELSE first

\* confirm_expected_response
ConfirmExpectedResponse(handler_result, case) ==
  AndThen(ConfirmResponseCode(handler_result["statusCode"],
                              Get(case, "response status", 200)),
    AndThen(IF "response headers" \in DOMAIN case
            THEN ConfirmResponseHeaders(
                   Get(handler_result, "headers", <<>>),
                   Get(handler_result, "multiValueHeaders", <<>>),
                   case["response headers"])
            ELSE Pass,
            ConfirmResponseBody(handler_result, case["response body"])))

\* d with key k when v is given
WithKey(d, k, v, given) == IF given THEN (k :> v) @@ d ELSE d

\* the (name, value) items a case lists under 'response headers'
HeaderItems == {<<"X", "1">>, <<"X", "2">>, <<"Y", "1">>}

\* the test cases: with and without 'response headers' (up to two items)
\* and 'response status', the body a string, a document or a byte sequence
ConfirmCases ==
  {WithKey(WithKey("response body" :> b, "response status", 404, st),
           "response headers", hs[1], hs # <<>>)
   : b \in {PyVal("str", "a"), Doc.D1, PyVal("bytes", <<"a">>)},
     st \in BOOLEAN,
     hs \in {<<>>} \cup {<<h>> : h \in SeqsUpTo(HeaderItems, 2)}}

\* the results of the handler
HandlerResults ==
  {WithKey(WithKey(WithKey(WithKey("statusCode" :> sc, "body", b[1], b # <<>>),
                           "isBase64Encoded", TRUE, enc),
                   "headers", h[1], h # <<>>),
           "multiValueHeaders", mv[1], mv # <<>>)
   : sc \in {200, 404},
     b \in {<<>>, <<[text |-> "a"]>>, <<[json |-> Doc.D1]>>,
            <<[base64 |-> <<"a">>]>>},
     enc \in BOOLEAN,
     h \in {<<>>, <<"X" :> "1">>, <<"X" :> "2">>},
     mv \in {<<>>, <<"X" :> <<"1">>>>, <<"X" :> <<"1", "2">>>>,
             <<"X" :> <<"1", "1">>>>, <<("X" :> <<"2">>) @@ ("Y" :> <<"1">>)>>}}

\* a test case is at hand
ConfirmInit ==
  /\ cases = <<>>
  /\ add_request_keys = {}
  /\ responses = <<>>
  /\ reqlines = <<>>
  /\ urls = <<>>
  /\ paths = <<>>
  /\ op = "case"
  /\ request \in ConfirmCases
  /\ deadline = 0
  /\ result = [kind |-> "None"]
  /\ compared = <<>>
  /\ calls = 0
  /\ serverless = <<>>
  /\ routing = <<>>

\* confirm_expected_response(handler_result, case)
ConfirmCall(handler_result) ==
  /\ calls < MaxCalls
  /\ calls' = calls + 1
  /\ op' = "confirm_expected_response"
  /\ result' = [outcome |-> ConfirmExpectedResponse(handler_result, request),
                handler_result |-> handler_result]
  /\ UNCHANGED <<cases, add_request_keys, responses, reqlines, urls, paths,
                 request, deadline, compared, serverless, routing>>

ConfirmNext == \E handler_result \in HandlerResults : ConfirmCall(handler_result)

ConfirmSpec == ConfirmInit /\ [][ConfirmNext]_vars

-----------------------------------------------------------------------------
(* Properties                                                              *)

\* best_matches returned a report
Reported == op = "best_matches" /\ result.kind = "report"

\* the tiers of the ladder that apply to the request of the last call
ReqlineTier == Reqline(request) \in Range(DictKeys(reqlines))

UrlTier == RequestUrl(request) \in Range(DictKeys(urls))

PathTier == RequestUrlPath(request) \in Range(DictKeys(paths))

\* C1: the report best_matches returns is of the variant of the first tier
\* that applies: reqline index -> additional-fields or request-body report,
\* else url index -> available-methods report, else path index ->
\* query-string report, else closest-paths report; never a later tier's
\* report when an earlier tier applies.
C1_TierOrder ==
  Reported =>
    LET cls == result.report.cls
    IN IF ReqlineTier
       THEN cls \in {"AvailableAdditionalFieldsReport",
                     "AvailableJsonRequestBodiesReport",
                     "AvailableScalarRequestBodiesReport"}
       ELSE IF UrlTier THEN cls = "AvailableHttpMethodsReport"
       ELSE IF PathTier THEN cls = "AvailableQueryStringParamsetsReport"
       ELSE cls = "AvailablePathsReport"

\* C1 witness: the reqline, url and path tiers all apply and the report is
\* the first tier's
C1_Witness ==
  /\ Reported
  /\ ReqlineTier /\ UrlTier /\ PathTier
  /\ result.report.cls = "AvailableJsonRequestBodiesReport"

\* json_exchange wrote a reply
Replied == op = "json_exchange" /\ result.kind = "reply"

\* the keys under which the six Report classes serialize themselves
ReportKeys ==
  {"available additional test case field value sets", "closest URL paths",
   "minimal JSON request body deltas", "closest request bodies",
   "available HTTP methods", "minimal query string deltas"}

\* C2: the reply json_exchange writes contains 'response status' exactly
\* when get_case finds a case for the request.  On a hit the reply is the
\* case's fields unchanged plus 'response status', which is 200 when the
\* case has none and the case's own value otherwise; on a miss the reply is
\* one serialized Report (a single key, that of a Report class) without
\* 'response status'.
C2_ResponseStatusIffHit ==
  Replied =>
    /\ ("response status" \in DOMAIN result.reply)
         <=> (GetCase(DB, request).kind = "case")
    /\ GetCase(DB, request).kind = "case" =>
         /\ DOMAIN result.reply
              = DOMAIN GetCase(DB, request).case \cup {"response status"}
         /\ \A f \in DOMAIN GetCase(DB, request).case :
              result.reply[f] = GetCase(DB, request).case[f]
         /\ "response status" \notin DOMAIN GetCase(DB, request).case =>
              result.reply["response status"] = PyVal("int", 200)
    /\ GetCase(DB, request).kind # "case" =>
         /\ \E key \in ReportKeys : DOMAIN result.reply = {key}
         /\ result.reply
              \in AsJsonicData(BestMatches(DB, request, deadline).report)

\* C2 witness: a hit on a case that has no 'response status' of its own,
\* answered with 200
C2_Witness ==
  /\ Replied
  /\ GetCase(DB, request).kind = "case"
  /\ "response status" \notin DOMAIN GetCase(DB, request).case
  /\ result.reply["response status"] = PyVal("int", 200)

\* the fields an exact lookup goes by
SelectedFields == {"method", "url", "request body"} \cup add_request_keys

\* c and r agree on field k: both lack it, or both have it with the same
\* value (a byte sequence is only the same as a byte sequence)
AgreeOn(c, r, k) ==
  IF k \in DOMAIN c THEN k \in DOMAIN r /\ c[k] = r[k] ELSE k \notin DOMAIN r

Agree(c, r) == \A k \in SelectedFields : AgreeOn(c, r, k)

\* C3: get_case goes by the selected fields only.  If a recorded case
\* agrees with the request on 'method', 'url', 'request body' and every
\* configured additional field, get_case returns the case stored under
\* that case's key (the last case of the catalogue that agrees with it),
\* whatever else the request or the case carries; and if the request
\* differs from every recorded case in a configured additional field,
\* get_case finds nothing.
C3_LookupBySelectedFields ==
  op = "get_case" =>
    /\ \A i \in 1..Len(cases) :
         Agree(cases[i], request) =>
           /\ result.kind = "case"
           /\ \E j \in i..Len(cases) :
                /\ Agree(cases[j], cases[i])
                /\ \A l \in (j + 1)..Len(cases) : ~Agree(cases[l], cases[i])
                /\ result.case = cases[j]
    /\ (\A i \in 1..Len(cases) :
          \E k \in add_request_keys : ~AgreeOn(cases[i], request, k))
         => result.kind = "None"

\* C3 witness: with 'story' configured, a request that carries a
\* 'description' no case has is answered with a later case that agrees
\* with it on the selected fields, the catalogue holding an earlier case
\* that agrees as well
C3_Witness ==
  /\ op = "get_case"
  /\ add_request_keys = {"story"}
  /\ "story" \in DOMAIN request
  /\ "description" \in DOMAIN request
  /\ Len(cases) = 2
  /\ Agree(cases[1], request)
  /\ cases[1] # cases[2]
  /\ result.kind = "case"
  /\ result.case = cases[2]

\* C4: for a request that has no exact match, best_matches always returns
\* a Report and never raises, whatever the request body (absent, a string, a byte sequence, or any JSON value,
\* booleans included).
C4_AlwaysReports ==
  (op = "best_matches" /\ GetCase(DB, request).kind = "None")
    => result.kind = "report"

\* jcomp.diff returned a Delta
Diffed == op = "diff" /\ result.kind = "delta"

\* C5: the Delta that JsonComparer(ref).diff(case) returns has at most one
\* of its three edit lists non-empty, and all three are empty exactly when
\* ref and case are the same document.
C5_OneTierEmptyIffIdentical ==
  Diffed =>
    /\ Cardinality({n \in 1..3 : result.delta[n] # <<>>}) <= 1
    /\ (\A n \in 1..3 : result.delta[n] = <<>>) <=> (request = result.case)

\* best_matches returned the JSON request body report
JsonBodiesReported ==
  Reported /\ result.report.cls = "AvailableJsonRequestBodiesReport"

\* 2 for a presence Delta, 1 for a location Delta, 0 for a Delta of scalar
\* edits (or of none)
DeltaTier(delta) ==
  IF delta[1] # <<>> THEN 2 ELSE IF delta[2] # <<>> THEN 1 ELSE 0

\* C6: in the JSON request body report, ranked by Delta.edit_distance(),
\* every candidate with a scalar-only Delta comes before every candidate
\* with a location Delta, and every location Delta before every presence
\* Delta, however many edits each holds.
C6_ScalarThenLocationThenPresence ==
  JsonBodiesReported =>
    \A i, j \in 1..Len(result.report.diff_case_pairs) :
      i < j => DeltaTier(result.report.diff_case_pairs[i][1])
                 <= DeltaTier(result.report.diff_case_pairs[j][1])

\* C6 witness: a report of three candidates, a scalar Delta of more edits
\* than the location Delta that follows it, then a presence Delta, the
\* catalogue holding them in the opposite order
C6_Witness ==
  /\ JsonBodiesReported
  /\ Len(result.report.diff_case_pairs) = 3
  /\ DeltaTier(result.report.diff_case_pairs[1][1]) = 0
  /\ DeltaTier(result.report.diff_case_pairs[2][1]) = 1
  /\ DeltaTier(result.report.diff_case_pairs[3][1]) = 2
  /\ Len(result.report.diff_case_pairs[1][1][3])
       > Len(result.report.diff_case_pairs[2][1][2])
  /\ result.report.diff_case_pairs[1][2] = cases[3]
  /\ result.report.diff_case_pairs[3][2] = cases[1]

\* best_matches returned the query string report
QueryParamsReported ==
  Reported /\ result.report.cls = "AvailableQueryStringParamsetsReport"

\* the candidate list of the report returned, in catalogue order: the cases
\* of the request's reqline whose body has the type of the request's, or
\* the cases of the request's path
Candidates ==
  IF JsonBodiesReported
  THEN SelectSeq(cases, LAMBDA c : /\ Reqline(c) = Reqline(request)
                                   /\ RequestBody(c).t = RequestBody(request).t)
  ELSE SelectSeq(cases, LAMBDA c : RequestUrlPath(c) = RequestUrlPath(request))

\* the entries of the report returned
Entries ==
  IF JsonBodiesReported THEN result.report.diff_case_pairs
  ELSE result.report.deltas

\* the request's diff against a candidate, and its edit distance
DiffAgainst(c) ==
  IF JsonBodiesReported
  THEN JsonDiff(RequestBody(request), RequestBody(c))
  ELSE QSDiff(RequestUrl(request)[2], RequestUrl(c)[2])

\* the lengths of the three lists of a JSON Delta; the edits of a query
\* string Delta
Lengths(delta) == <<Len(delta[1]), Len(delta[2]), Len(delta[3])>>

DistanceTo(c) ==
  IF JsonBodiesReported THEN Lengths(DiffAgainst(c)) ELSE <<DiffAgainst(c)[1]>>

\* candidate q comes before candidate p in the order of (edit distance,
\* position)
ComesBefore(q, p) ==
  IntTupleLt(DistanceTo(Candidates[q]) \o <<q>>, DistanceTo(Candidates[p]) \o <<p>>)

\* the place of the p-th candidate among the evaluated ones
PlaceOf(p) == 1 + Cardinality({q \in 1..Len(compared) : ComesBefore(q, p)})

\* C7: the JSON body report and the query string report list min(5, k)
\* entries, k being the number of candidates evaluated: the k evaluated are
\* a prefix of the candidate list (the whole list when the deadline does
\* not pass), and the entries are the least of them by (edit distance,
\* position in the candidate list), in ascending order, so that candidates
\* at the same distance keep their catalogue order.
C7_FiveClosestInOrder ==
  (JsonBodiesReported \/ QueryParamsReported) =>
    /\ Len(compared) <= Len(Candidates)
    /\ \A i \in 1..Len(compared) : compared[i].index = i - 1
    /\ deadline >= Len(Candidates) => Len(compared) = Len(Candidates)
    /\ Len(Entries) = Min(5, Len(compared))
    /\ \A p \in 1..Len(compared) :
         PlaceOf(p) <= Len(Entries) =>
           Entries[PlaceOf(p)] = <<DiffAgainst(Candidates[p]), Candidates[p]>>

\* C7 witness: six candidates evaluated and five listed, the one left out
\* being the first of the catalogue
C7_Witness ==
  /\ JsonBodiesReported
  /\ Len(compared) = 6
  /\ Len(Entries) = 5
  /\ RequestBody(cases[1]) = Doc.P
  /\ \A i \in 1..5 : Entries[i][2] = cases[i + 1]

\* two candidates at the same distance, told apart by their methods, are
\* listed in catalogue order
C7_TieWitness ==
  /\ QueryParamsReported
  /\ Len(Entries) = 2
  /\ cases[1] # cases[2]
  /\ DistanceTo(cases[1]) = DistanceTo(cases[2])
  /\ Entries[1][2] = cases[1]

\* C8: in the four tiers that compare the request with candidates one by
\* one (JSON body diff, string/byte body edit distance, query string diff,
\* path edit distance) no candidate is compared once the deadline has
\* passed.
C8_NoComparisonAfterDeadline ==
  op = "best_matches" =>
    \A i \in 1..Len(compared) :
      compared[i].tier \in {"json body", "scalar body", "query string", "path"}
        => ~compared[i].late

\* best_matches returned one of the two request body reports
BodiesReported ==
  Reported /\ result.report.cls \in {"AvailableJsonRequestBodiesReport",
                                     "AvailableScalarRequestBodiesReport"}

\* the cases that report lists
ListedCases ==
  IF JsonBodiesReported
  THEN [i \in 1..Len(result.report.diff_case_pairs) |->
          result.report.diff_case_pairs[i][2]]
  ELSE result.report.test_cases

\* the recorded cases of the request's reqline, in catalogue order
SameReqline == SelectSeq(cases, LAMBDA c : Reqline(c) = Reqline(request))

\* the deadline does not end the comparisons early
NotCutShort == ~JsonBodiesReported \/ deadline >= Len(SameReqline)

\* the report was built by comparing the request body with exactly these
\* candidates
ComparedWithExactly(candidates) ==
  /\ Len(compared) = Len(candidates)
  /\ Len(ListedCases) = Min(5, Len(candidates))
  /\ Range(ListedCases) \subseteq Range(candidates)
  /\ Len(candidates) <= 5 => Range(ListedCases) = Range(candidates)

\* C9 (as stated): the candidates diffed against the request body are the
\* same-reqline cases of the same representation type, the types being
\* string, byte sequence and structured: a structured request body is
\* compared with every same-reqline case whose body is structured.
C9_SameRepresentationCandidates ==
  (BodiesReported /\ NotCutShort) =>
    ComparedWithExactly(
      SelectSeq(SameReqline,
                LAMBDA c : IF IsJsonicBody(RequestBody(request))
                           THEN IsJsonicBody(RequestBody(c))
                           ELSE RequestBody(c).t = RequestBody(request).t))

\* C9 (amended): the candidates diffed against the request body are the
\* same-reqline cases whose 'request body' is of exactly the type of the
\* request's (an absent body counting as None): an object is compared with
\* objects only, a list with lists only, and so on.
C9_SameTypeCandidates ==
  (BodiesReported /\ NotCutShort) =>
    ComparedWithExactly(
      SelectSeq(SameReqline,
                LAMBDA c : RequestBody(c).t = RequestBody(request).t))

\* C9 witness: the request has an object body, the catalogue an object
\* body and a list body on the request's reqline, and the report lists the
\* object-bodied case alone
C9_Witness ==
  /\ BodiesReported
  /\ NotCutShort
  /\ RequestBody(request).t = "dict"
  /\ Len(SameReqline) = 2
  /\ RequestBody(cases[1]).t = "list"
  /\ RequestBody(cases[2]).t = "dict"
  /\ ListedCases = <<cases[2]>>

\* the lowercased methods of the recorded cases whose (path, name-sorted
\* query pairs) is the request's
MethodsRecordedForUrl ==
  {Lower(IF "method" \in DOMAIN cases[i] THEN cases[i]["method"].v ELSE "get")
   : i \in {j \in 1..Len(cases) : RequestUrl(cases[j]) = RequestUrl(request)}}

\* C10: when the url tier applies, the available-methods report holds
\* exactly the lowercased methods of the recorded cases whose (path,
\* name-sorted query pairs) equals the request's, and its serialized form
\* lists each of them once.
C10_MethodsOfUrl ==
  /\ (Reported /\ result.report.cls = "AvailableHttpMethodsReport") =>
       result.report.methods = MethodsRecordedForUrl
  /\ (Replied /\ "available HTTP methods" \in DOMAIN result.reply) =>
       /\ Range(result.reply["available HTTP methods"]) = MethodsRecordedForUrl
       /\ Len(result.reply["available HTTP methods"])
            = Cardinality(MethodsRecordedForUrl)

\* C10 witness: GET /a?x=1&y=2 and get /a?y=2&x=1 are recorded and
\* post /a?x=1&y=2 is requested: the report holds "get" alone
C10_Witness ==
  /\ Reported
  /\ result.report.cls = "AvailableHttpMethodsReport"
  /\ Len(cases) = 2
  /\ \A c \in {cases[1], cases[2], request} : "method" \in DOMAIN c
  /\ cases[1]["method"].v = "GET"
  /\ cases[2]["method"].v = "get"
  /\ cases[1]["url"] # cases[2]["url"]
  /\ request["method"].v = "post"
  /\ result.report.methods = {"get"}

\* the places in a list where an item is first seen
FirstSeenAt(items) ==
  {i \in 1..Len(items) : \A j \in 1..(i - 1) : items[j] # items[i]}

\* the place of the i-th item among those first seen at the places first,
\* by ascending cost and, at equal cost, first appearance
PlaceAmong(i, first, costs) ==
  1 + Cardinality({j \in first :
                     IntTupleLt(<<costs[j], j>>, <<costs[i], i>>)})

\* listed holds the min(5, number of distinct items) closest of items, each
\* once, in ascending cost, equal costs in order of first appearance
ListsClosest(listed, items, first, costs) ==
  /\ Len(listed) = Min(5, Cardinality(first))
  /\ \A i \in first :
       PlaceAmong(i, first, costs) <= 5 =>
         listed[PlaceAmong(i, first, costs)] = items[i]

\* best_matches returned the closest-paths report
PathsReported == Reported /\ result.report.cls = "AvailablePathsReport"

\* the paths of the recorded cases, in catalogue order
CasePaths == Tabulate([i \in 1..Len(cases) |-> RequestUrlPath(cases[i])])

\* the Levenshtein distance from each of ps to the request's path
PathDistances(ps) ==
  Tabulate([i \in 1..Len(ps) |-> Levenshtein(ps[i], RequestUrlPath(request))])

\* the recorded cases at the path of the i-th case, in catalogue order
CasesAtPathOf(i) ==
  SelectSeq(cases, LAMBDA c : RequestUrlPath(c) = RequestUrlPath(cases[i]))

\* the descriptions of the cases of cs that have one
Descriptions(cs) ==
  LET described == SelectSeq(cs, LAMBDA c : "description" \in DOMAIN c)
  IN [n \in 1..Len(described) |-> described[n]["description"]]

\* the closest-paths entries as best_matches returns them
PathGroupsOf(ps) ==
  Tabulate([i \in 1..Len(ps) |-> <<ps[i], CasesAtPathOf(i)>>])

\* the closest-paths entries as json_exchange writes them
PathDescriptionsOf(ps) ==
  Tabulate([i \in 1..Len(ps) |-> <<ps[i], Descriptions(CasesAtPathOf(i))>>])

\* C11: when no recorded path equals the request's path, best_matches
\* returns (and json_exchange writes) the closest-paths report; it lists
\* min(5, number of distinct recorded paths) distinct recorded paths in
\* ascending Levenshtein distance from the request path, equal distances in
\* order of first appearance in the catalogue, each path with the cases
\* recorded at it, serialized as their descriptions; with an empty
\* catalogue the list is empty and nothing is raised.
C11_ClosestPaths ==
  /\ (op = "best_matches" /\ ~PathTier) =>
       /\ PathsReported
       /\ ListsClosest(result.report.test_case_groups, PathGroupsOf(CasePaths),
                       FirstSeenAt(CasePaths), PathDistances(CasePaths))
  /\ (op = "json_exchange" /\ ~PathTier) =>
       /\ Replied
       /\ DOMAIN result.reply = {"closest URL paths"}
       /\ ListsClosest(result.reply["closest URL paths"],
                       PathDescriptionsOf(CasePaths), FirstSeenAt(CasePaths),
                       PathDistances(CasePaths))

\* C11 witness: six distinct paths are recorded, three at distance 1 and
\* three at distance 2 from the request's; five are listed, /a, recorded
\* last, third, /abc, recorded first, fourth, and /cc is left out
C11_Witness ==
  /\ PathsReported
  /\ Len(cases) = 6
  /\ Cardinality(FirstSeenAt(CasePaths)) = 6
  /\ RequestUrlPath(cases[1]) = <<"/", "a", "b", "c">>
  /\ RequestUrlPath(cases[6]) = <<"/", "a">>
  /\ Len(result.report.test_case_groups) = 5
  /\ result.report.test_case_groups[3][1] = <<"/", "a">>
  /\ result.report.test_case_groups[4][1] = <<"/", "a", "b", "c">>
  /\ \A n \in 1..5 : result.report.test_case_groups[n][1] # <<"/", "c", "c">>

\* with an empty catalogue json_exchange writes an empty list
C11_EmptyWitness ==
  /\ Replied
  /\ cases = <<>>
  /\ result.reply = ("closest URL paths" :> <<>>)

\* two described cases at one path are listed by their descriptions
C11_DescriptionsWitness ==
  /\ Replied
  /\ Len(cases) = 2
  /\ "closest URL paths" \in DOMAIN result.reply
  /\ result.reply["closest URL paths"]
       = <<<<<<"/", "a">>, <<PyVal("str", "d1"), PyVal("str", "d2")>>>>>>

\* best_matches returned the additional-fields report
AddnlFieldsReported ==
  Reported /\ result.report.cls = "AvailableAdditionalFieldsReport"

\* the value set of c: its configured additional fields as (field, value)
\* pairs sorted by field
ValueSet(c) ==
  LET fields == SelectSeq(StrOrder,
                          LAMBDA f : f \in add_request_keys /\ f \in DOMAIN c)
  IN [n \in 1..Len(fields) |-> <<fields[n], c[fields[n]]>>]

\* the value sets of the same-reqline cases, in catalogue order
ValueSets ==
  Tabulate([i \in 1..Len(SameReqline) |-> ValueSet(SameReqline[i])])

\* the alignment edit cost from the request's value set to each of sets
SetCosts(sets) ==
  Tabulate([i \in 1..Len(sets) |-> EditCount(Edits(ValueSet(request), sets[i]))])

\* C12: in the reqline tier the additional-fields report is returned if
\* and only if the request's value set equals the value set of no
\* same-reqline case; it lists min(5, number of distinct value sets) value
\* sets, each once, in ascending alignment edit cost from the request's,
\* equal costs in the order the sets are first seen in the catalogue.
C12_AdditionalFieldSets ==
  (op = "best_matches" /\ ReqlineTier) =>
    /\ AddnlFieldsReported
         <=> \A i \in 1..Len(ValueSets) : ValueSets[i] # ValueSet(request)
    /\ AddnlFieldsReported =>
         ListsClosest(result.report.available_value_sets, ValueSets,
                      FirstSeenAt(ValueSets), SetCosts(ValueSets))

\* C12 witness: six value sets are recorded, four at cost 1 and two at
\* cost 2 from the request's {story: A, tag: x}; five are listed, the
\* empty set, recorded first, last of them, and {story: B, tag: y},
\* recorded after it, is left out
C12_Witness ==
  /\ AddnlFieldsReported
  /\ Cardinality(FirstSeenAt(ValueSets)) = 6
  /\ ValueSet(cases[1]) = <<>>
  /\ SetCosts(ValueSets)[1] = 2
  /\ SetCosts(ValueSets)[6] = 1
  /\ Len(result.report.available_value_sets) = 5
  /\ result.report.available_value_sets[5] = <<>>
  /\ result.report.available_value_sets[4] = ValueSet(cases[6])

\* two cases with the same value set, which is not the request's: the set
\* is listed once
C12_DuplicateWitness ==
  /\ AddnlFieldsReported
  /\ Len(cases) = 2
  /\ ValueSet(cases[1]) = ValueSet(cases[2])
  /\ result.report.available_value_sets = <<ValueSet(cases[1])>>

\* best_matches returned the 'closest request bodies' report
ScalarBodiesReported ==
  Reported /\ result.report.cls = "AvailableScalarRequestBodiesReport"

\* the same-reqline cases whose body has the type of the request's
SameTypeCases ==
  SelectSeq(SameReqline, LAMBDA c : RequestBody(c).t = RequestBody(request).t)

\* the Levenshtein distance from the request body to the body of each of cs
BodyDistances(cs) ==
  Tabulate([i \in 1..Len(cs) |->
              Levenshtein(RequestBody(request).v, RequestBody(cs[i]).v)])

\* the entry of the serialized report for case c
SerializedBody(c) ==
  IF RequestBody(c).t = "bytes"
  THEN [f \in {"case description", "request body", "isBase64Encoded"} |->
          CASE f = "case description" -> Get(c, "description", NoneV)
            [] f = "request body" -> PyVal("str", <<"base64">> \o RequestBody(c).v)
            [] f = "isBase64Encoded" -> PyVal("bool", TRUE)]
  ELSE [f \in {"case description", "request body"} |->
          IF f = "request body" THEN RequestBody(c)
          ELSE Get(c, "description", NoneV)]

\* C13: when the request body is a string or a byte sequence and a
\* same-reqline case has the request's additional fields, best_matches
\* makes no JSON diff and returns the 'closest request bodies' report: the
\* min(5, n) closest of the n same-reqline cases whose body has the request
\* body's type, in ascending Levenshtein distance from the request body,
\* equal distances in catalogue order; serialized, a byte body is
\* base64-encoded and flagged 'isBase64Encoded': true, a string body is
\* written verbatim without the flag.
C13_ClosestScalarBodies ==
  (/\ op = "best_matches"
   /\ ReqlineTier
   /\ RequestBody(request).t \in {"str", "bytes"}
   /\ \E i \in 1..Len(ValueSets) : ValueSets[i] = ValueSet(request)) =>
    /\ ScalarBodiesReported
    /\ \A i \in 1..Len(compared) : compared[i].tier = "scalar body"
    /\ ListsClosest(result.report.test_cases, SameTypeCases,
                    1..Len(SameTypeCases), BodyDistances(SameTypeCases))
    /\ AsJsonicData(result.report)
         = {"closest request bodies" :>
              [i \in 1..Len(result.report.test_cases) |->
                 SerializedBody(result.report.test_cases[i])]}

\* C13 witness: six string bodies are recorded on the request's reqline
\* and five are listed: 'a' and 'b', both at distance 1 from 'ab', in
\* catalogue order behind each other, and 'bcc', recorded first, after them
C13_Witness ==
  /\ ScalarBodiesReported
  /\ Len(cases) = 6
  /\ RequestBody(request) = PyVal("str", <<"a", "b">>)
  /\ RequestBody(cases[1]).v = <<"b", "c", "c">>
  /\ RequestBody(cases[2]).v = <<"b">>
  /\ RequestBody(cases[3]).v = <<"a">>
  /\ RequestBody(cases[6]).v = <<"b", "c", "c">>
  /\ Len(result.report.test_cases) = 5
  /\ result.report.test_cases[1] = cases[2]
  /\ result.report.test_cases[2] = cases[3]
  /\ result.report.test_cases[5] = cases[1]

\* a byte body is listed among byte bodies only and serialized in base64
C13_BytesWitness ==
  /\ ScalarBodiesReported
  /\ RequestBody(request).t = "bytes"
  /\ Len(cases) = 2
  /\ RequestBody(cases[1]).t = "str"
  /\ RequestBody(cases[2]) = PyVal("bytes", <<"a">>)
  /\ AsJsonicData(result.report)
       = {"closest request bodies" :>
            <<[f \in {"case description", "request body", "isBase64Encoded"} |->
                 CASE f = "case description" -> NoneV
                   [] f = "request body" -> PyVal("str", <<"base64", "a">>)
                   [] f = "isBase64Encoded" -> PyVal("bool", TRUE)]>>}

\* the literal under which each Report class serializes itself
ReportKey(cls) ==
  CASE cls = "AvailableAdditionalFieldsReport" ->
         "available additional test case field value sets"
    [] cls = "AvailablePathsReport" -> "closest URL paths"
    [] cls = "AvailableHttpMethodsReport" -> "available HTTP methods"
    [] cls = "AvailableQueryStringParamsetsReport" -> "minimal query string deltas"
    [] cls = "AvailableJsonRequestBodiesReport" ->
         "minimal JSON request body deltas"
    [] cls = "AvailableScalarRequestBodiesReport" -> "closest request bodies"

\* C14: as_jsonic_data() of every Report that best_matches returns is an
\* object with exactly one top-level key, the literal of the report's
\* variant; the same holds of what json_exchange writes for a request that
\* has no exact match.
C14_OneLiteralKey ==
  /\ Reported =>
       \A data \in AsJsonicData(result.report) :
         DOMAIN data = {ReportKey(result.report.cls)}
  /\ (Replied /\ GetCase(DB, request).kind = "None") =>
       DOMAIN result.reply
         = {ReportKey(BestMatches(DB, request, deadline).report.cls)}

\* C14 witness: json_exchange writes the additional-fields report, under
\* its literal alone
C14_Witness ==
  /\ Replied
  /\ GetCase(DB, request).kind = "None"
  /\ BestMatches(DB, request, deadline).report.cls
       = "AvailableAdditionalFieldsReport"
  /\ DOMAIN result.reply
       = {"available additional test case field value sets"}
  /\ Len(result.reply["available additional test case field value sets"]) = 2

\* every variant of Report is returned by some call
C14_VariantWitness1 ==
  Reported /\ result.report.cls = "AvailablePathsReport"
           /\ result.report.test_case_groups # <<>>

C14_VariantWitness2 ==
  Reported /\ result.report.cls = "AvailableHttpMethodsReport"

C14_VariantWitness3 ==
  Reported /\ result.report.cls = "AvailableQueryStringParamsetsReport"
           /\ result.report.deltas # <<>>

C14_VariantWitness4 ==
  Reported /\ result.report.cls = "AvailableJsonRequestBodiesReport"
           /\ result.report.diff_case_pairs # <<>>

C14_VariantWitness5 ==
  Reported /\ result.report.cls = "AvailableScalarRequestBodiesReport"
           /\ result.report.test_cases # <<>>

\* the keys of a serialized JSON Delta
TierKeys ==
  {"alter substructures", "rearrange substructures", "alter scalar values"}

\* every entry of a serialized JSON request body report has a 'diff' with
\* exactly one key, a tier key, mapped to a non-empty list
OneTierDiffs(entries) ==
  \A i \in 1..Len(entries) :
    \E key \in TierKeys :
      /\ DOMAIN entries[i]["diff"] = {key}
      /\ entries[i]["diff"][key] # <<>>

\* C15: every entry of a serialized 'minimal JSON request body deltas'
\* report that best_matches or json_exchange produces has a 'diff' that is
\* an object with exactly one key, one of 'alter substructures',
\* 'rearrange substructures', 'alter scalar values', mapped to a non-empty
\* list of edits; it is never null, also when a same-reqline candidate has
\* the request's body.
C15_DiffNeverNull ==
  /\ JsonBodiesReported =>
       \A data \in AsJsonicData(result.report) :
         OneTierDiffs(data["minimal JSON request body deltas"])
  /\ (Replied /\ "minimal JSON request body deltas" \in DOMAIN result.reply) =>
       OneTierDiffs(result.reply["minimal JSON request body deltas"])

\* the Database that __init__ makes of the recorded cases as they are now
FreshDatabase ==
  [cases |-> cases, add_request_keys |-> add_request_keys,
   responses |-> BuildResponses(cases, add_request_keys),
   reqlines |-> GroupDict([i \in 1..Len(cases) |-> Reqline(cases[i])], cases),
   urls |-> GroupDict([i \in 1..Len(cases) |-> RequestUrl(cases[i])], cases),
   paths |-> GroupDict([i \in 1..Len(cases) |-> RequestUrlPath(cases[i])],
                       cases)]

\* what a call is seen to have done
Outcome == [f \in DOMAIN result \cup {"compared"} |->
              IF f = "compared" THEN compared ELSE result[f]]

\* outcome o of the model's operators, with the log it may lack
Logged(o) == [f \in DOMAIN o \cup {"compared"} |->
                IF f \in DOMAIN o THEN o[f] ELSE <<>>]

\* the last call did what it does as the first call on a Database newly
\* made of the same cases
AsOnFreshDatabase ==
  /\ DB = FreshDatabase
  /\ op = "get_case" => Outcome = Logged(GetCase(FreshDatabase, request))
  /\ op = "best_matches" =>
       Outcome = Logged(BestMatches(FreshDatabase, request, deadline))
  /\ op = "json_exchange" =>
       \E o \in JsonExchange(FreshDatabase, request, deadline) :
         Outcome = Logged(o)

Occurrences(q, pair) == Cardinality({n \in 1..Len(q) : q[n] = pair})

\* the urls of c and r have the same path and the same query parameters,
\* in whatever order
SameUrlUpToOrder(c, r) ==
  /\ UrlParse(c).path = UrlParse(r).path
  /\ Len(UrlParse(c).query) = Len(UrlParse(r).query)
  /\ \A pair \in Range(UrlParse(c).query) :
       Occurrences(UrlParse(c).query, pair) = Occurrences(UrlParse(r).query, pair)

\* the method of c, 'get' when it has none, in lower case
MethodOf(c) == Lower(IF "method" \in DOMAIN c THEN c["method"].v ELSE "get")

\* C17: a request with the method of a recorded case and a url that
\* differs from the case's only in the order of its query parameters is
\* handled by the reqline tier: best_matches returns the additional-fields
\* report or a request body report, never an available-methods report
\* (which would name the request's own method).
C17_ReqlineIgnoresQueryOrder ==
  (/\ Reported
   /\ \E i \in 1..Len(cases) :
        /\ MethodOf(cases[i]) = MethodOf(request)
        /\ SameUrlUpToOrder(cases[i], request)) =>
    /\ result.report.cls \in {"AvailableAdditionalFieldsReport",
                              "AvailableJsonRequestBodiesReport",
                              "AvailableScalarRequestBodiesReport"}
    /\ ~(/\ result.report.cls = "AvailableHttpMethodsReport"
         /\ MethodOf(request) \in result.report.methods)

\* c and r both name a method, the same but for letter case, and agree on
\* every other selected field
SameButMethodCase(c, r) ==
  /\ "method" \in DOMAIN c
  /\ "method" \in DOMAIN r
  /\ Lower(c["method"].v) = Lower(r["method"].v)
  /\ \A k \in SelectedFields \ {"method"} : AgreeOn(c, r, k)

\* C18: a request and a recorded case whose 'method' strings differ only
\* in letter case, all other selected fields being equal, are the same
\* request: get_case returns a case, json_exchange replies with 'response
\* status', and best_matches answers from the reqline tier.
C18_MethodCaseInsensitive ==
  (\E i \in 1..Len(cases) : SameButMethodCase(cases[i], request)) =>
    /\ op = "get_case" => result.kind = "case"
    /\ op = "json_exchange" =>
         Replied /\ "response status" \in DOMAIN result.reply
    /\ Reported =>
         result.report.cls \in {"AvailableAdditionalFieldsReport",
                                "AvailableJsonRequestBodiesReport",
                                "AvailableScalarRequestBodiesReport"}

\* the values a query string gives to name, in the order it gives them
ValuesOf(q, name) == SelectSeq(q, LAMBDA pair : pair[1] = name)

\* c with its query parameters in every order that keeps the values of
\* each name in their order
Reorderings(c) ==
  LET q == UrlParse(c).query
  IN {[c EXCEPT !["url"] = PUrl(UrlParse(c).path, [n \in 1..Len(q) |-> q[p[n]]])]
      : p \in {f \in [1..Len(q) -> 1..Len(q)] :
                 /\ Range(f) = 1..Len(q)
                 /\ \A m, n \in 1..Len(q) :
                      (m < n /\ q[f[m]][1] = q[f[n]][1]) => f[m] < f[n]}}

\* the url of r is that of c with two different values of one name
\* swapped
SwapsValues(c, r) ==
  LET q == UrlParse(c).query
      w == UrlParse(r).query
  IN /\ UrlParse(c).path = UrlParse(r).path
     /\ Len(q) = Len(w)
     /\ \E m, n \in 1..Len(q) :
          /\ m < n
          /\ q[m][1] = q[n][1]
          /\ q[m][2] # q[n][2]
          /\ w = [q EXCEPT ![m] = q[n], ![n] = q[m]]

\* C19: query strings are normalized by a stable sort on the parameter
\* name alone.  Reordering parameters of different names, in the request
\* url or in a case url, changes neither the key of the url in the url
\* index nor the query string Delta of request against case; and a request
\* that swaps two values of one name of a case's url has another url key
\* than the case and, when no case has the request's url key, gets the
\* query string report, in which every entry for that case has a
\* non-empty mods list.
C19_StableSortOnName ==
  op = "best_matches" =>
    /\ \A r \in Reorderings(request) :
         /\ RequestUrl(r) = RequestUrl(request)
         /\ \A i \in 1..Len(cases) :
              \A c \in Reorderings(cases[i]) :
                /\ RequestUrl(c) = RequestUrl(cases[i])
                /\ QSDiff(RequestUrl(r)[2], RequestUrl(c)[2])
                     = QSDiff(RequestUrl(request)[2], RequestUrl(cases[i])[2])
    /\ \A i \in 1..Len(cases) :
         SwapsValues(cases[i], request) =>
           /\ RequestUrl(cases[i]) # RequestUrl(request)
           /\ ~UrlTier =>
                /\ QueryParamsReported
                /\ \A n \in 1..Len(result.report.deltas) :
                     result.report.deltas[n][2] = cases[i] =>
                       result.report.deltas[n][1][3] # <<>>

\* C19 witness: /a?x=1&y=2&x=2 is recorded and /a?x=1&x=2&y=2 requested:
\* the request has the url key of the case, and the url tier answers
C19_Witness ==
  /\ Reported
  /\ Len(cases) = 1
  /\ UrlParse(cases[1]).query = <<<<"x", "1">>, <<"y", "2">>, <<"x", "2">>>>
  /\ UrlParse(request).query = <<<<"x", "1">>, <<"x", "2">>, <<"y", "2">>>>
  /\ request \in Reorderings(cases[1])
  /\ result.report.cls = "AvailableHttpMethodsReport"

\* /a?x=2&x=1 is recorded and /a?x=1&x=2 requested: the query string
\* report says how to change the request
C19_SwapWitness ==
  /\ QueryParamsReported
  /\ Len(cases) = 1
  /\ SwapsValues(cases[1], request)
  /\ Len(result.report.deltas) = 1
  /\ result.report.deltas[1][1][3]
       = <<("field" :> "x") @@ ("add" :> "2"), ("field" :> "x") @@ ("del" :> "2")>>

\* a and b have the same structure: the same type, and for collections
\* the same keys or length with members of the same structure
RECURSIVE SameStructure(_, _)
SameStructure(a, b) ==
  /\ a.t = b.t
  /\ a.t = "dict" =>
       /\ DOMAIN a.v = DOMAIN b.v
       /\ \A k \in DOMAIN a.v : SameStructure(a.v[k], b.v[k])
  /\ a.t = "list" =>
       /\ Len(a.v) = Len(b.v)
       /\ \A i \in 1..Len(a.v) : SameStructure(a.v[i], b.v[i])

\* the scalars of a document as (key path, value), in document order
ScalarsOf(doc) == Scalars(JsonIndex(doc))

\* one {'set': key path, 'to': the case's value} per scalar of ref that
\* differs in case, in document order
ExpectedScalarEdits(ref_scalars, case_scalars) ==
  LET differing == SelectSeq([i \in 1..Len(ref_scalars) |-> i],
                             LAMBDA i : ref_scalars[i][2] # case_scalars[i][2])
  IN [n \in 1..Len(differing) |->
        ("set" :> ref_scalars[differing[n]][1])
          @@ ("to" :> case_scalars[differing[n]][2])]

\* C20: when the request's JSON body and a same-reqline case's JSON body
\* have the same structure and differ only in the values of scalars of
\* the same type, the Delta reported for that case has empty presence and
\* location lists, and its scalar list holds exactly one edit per
\* differing scalar, {'set': the scalar's key path, 'to': the case's value
\* there}, in document order.
C20_ScalarEdits ==
  JsonBodiesReported =>
    \A n \in 1..Len(result.report.diff_case_pairs) :
      SameStructure(RequestBody(request),
                    RequestBody(result.report.diff_case_pairs[n][2])) =>
        result.report.diff_case_pairs[n][1]
          = <<<<>>, <<>>,
              ExpectedScalarEdits(
                ScalarsOf(RequestBody(request)),
                ScalarsOf(RequestBody(result.report.diff_case_pairs[n][2])))>>

\* C20 witness: the request body is [{"a": 1, "b": 1}, {"a": 1}] and the
\* case's [{"a": 2, "b": 1}, {"a": 2}]: two edits, for [0].a and [1].a,
\* each to 2
C20_Witness ==
  /\ JsonBodiesReported
  /\ RequestBody(request) = Doc.R
  /\ Len(result.report.diff_case_pairs) = 1
  /\ RequestBody(result.report.diff_case_pairs[1][2]) = Doc.S2
  /\ result.report.diff_case_pairs[1][1]
       = <<<<>>, <<>>,
           <<("set" :> <<"[0]", "a">>) @@ ("to" :> PyVal("int", 2)),
             ("set" :> <<"[1]", "a">>) @@ ("to" :> PyVal("int", 2))>>>>

\* the places n of the walk of ref at which ref and case hold scalars of
\* different JSON types as a field of an object
RetypedFields(ref_index, case_index) ==
  {n \in 1..Len(ref_index) :
     /\ ref_index[n][1][1] # case_index[n][1][1]
     /\ ~IsCollection(ref_index[n][1][1])
     /\ ~IsCollection(case_index[n][1][1])
     /\ \E m \in 1..Len(ref_index) :
          /\ ref_index[m][3] = SubSeq(ref_index[n][3], 1, Len(ref_index[n][3]) - 1)
          /\ ref_index[m][1][1] = LookupJsonType("dict")
          /\ Len(ref_index[n][3]) > 0}

\* ref and case differ only in the JSON type of one scalar field of an
\* object: the walks visit the same key paths, and the scalars are the same
\* but for the one field
OneFieldRetyped(ref_index, case_index) ==
  /\ Column(ref_index, 3) = Column(case_index, 3)
  /\ Cardinality(RetypedFields(ref_index, case_index)) = 1
  /\ \A n \in 1..Len(ref_index) :
       \/ n \in RetypedFields(ref_index, case_index)
       \/ /\ ref_index[n][1][1] = case_index[n][1][1]
          /\ IsCollection(ref_index[n][1][1]) \/ ref_index[n][2] = case_index[n][2]

\* the place, in both walks, of the object that holds the retyped field
EnclosingObject(ref_index, case_index) ==
  CHOOSE m \in 1..Len(ref_index) :
    \E n \in RetypedFields(ref_index, case_index) :
      ref_index[m][3] = SubSeq(ref_index[n][3], 1, Len(ref_index[n][3]) - 1)

\* some presence edit names key_path as 'del' or 'alt'
NamesKeyPath(struct, key_path) ==
  \E e \in 1..Len(struct) :
    \/ "del" \in DOMAIN struct[e] /\ struct[e]["del"] = key_path
    \/ "alt" \in DOMAIN struct[e] /\ struct[e]["alt"] = key_path

\* some presence edit carries sig as 'add' or 'to'
CarriesSignature(struct, sig) ==
  \E e \in 1..Len(struct) :
    \/ "add" \in DOMAIN struct[e] /\ struct[e]["add"] = sig
    \/ "to" \in DOMAIN struct[e] /\ struct[e]["to"] = sig

\* the presence list alone is non-empty, names one of key_paths and carries
\* sig
PresenceEdits(delta, key_paths, sig) ==
  /\ delta[1] # <<>> /\ delta[2] = <<>> /\ delta[3] = <<>>
  /\ \E key_path \in key_paths : NamesKeyPath(delta[1], key_path)
  /\ CarriesSignature(delta[1], sig)

\* the key paths of the objects of the walk that have the signature sig
KeyPathsOfSignature(index, sig) ==
  {index[m][3] : m \in {k \in 1..Len(index) : index[k][1] = sig}}

\* C21 (as stated): when two JSON documents differ only in the JSON type of
\* one scalar field of an object, diff reports the difference in the
\* presence tier alone; the presence list names, as 'del' or 'alt', the key
\* path of the enclosing object in the reference and carries, as 'add' or
\* 'to', the signature of the corresponding object of the candidate.
C21_RetypedFieldNamesItsObject ==
  (Diffed /\ OneFieldRetyped(JsonIndex(request), JsonIndex(result.case))) =>
    LET ref_index == JsonIndex(request)
        case_index == JsonIndex(result.case)
        m == EnclosingObject(ref_index, case_index)
    IN PresenceEdits(result.delta, {ref_index[m][3]}, case_index[m][1])

\* C21 (amended): when two JSON documents differ only in the JSON type of
\* one scalar field of an object, diff reports the difference in the
\* presence tier alone; the presence list names, as 'del' or 'alt', the key
\* path of an object of the reference that has the signature of the
\* enclosing object, and carries, as 'add' or 'to', the signature of the
\* corresponding object of the candidate.
C21_RetypedFieldNamesItsSignature ==
  (Diffed /\ OneFieldRetyped(JsonIndex(request), JsonIndex(result.case))) =>
    LET ref_index == JsonIndex(request)
        case_index == JsonIndex(result.case)
        m == EnclosingObject(ref_index, case_index)
    IN PresenceEdits(result.delta,
                     KeyPathsOfSignature(ref_index, ref_index[m][1]),
                     case_index[m][1])

\* C21 witness: the reference is [{"a": 1}, {"a": 1}] and the candidate
\* [{"a": "x"}, {"a": 1}]: the presence list adds the signature {a: str}
\* and deletes (1,), the object of the reference that did not change
C21_Witness ==
  /\ Diffed
  /\ request = Doc.T00
  /\ result.case = Doc.T10
  /\ result.delta
       = <<<<("add" :> <<LookupJsonType("dict"), {<<"a", LookupJsonType("str")>>}>>)
               @@ ("congruent options" :> <<PyVal("dict", "a" :> PyVal("str", "x"))>>),
             ("del" :> <<"[1]">>)>>,
           <<>>, <<>>>>

\* the signatures of the lists and objects of a document, as the walk
\* meets them
SignaturesOf(doc) == Column(Collections(JsonIndex(doc)), 1)

\* the number of substructures of signature sig
SignatureCount(sigs, sig) == Cardinality({n \in 1..Len(sigs) : sigs[n] = sig})

\* two documents hold the same multiset of substructure signatures
SameSignatures(ref_sigs, case_sigs) ==
  \A sig \in Range(ref_sigs) \cup Range(case_sigs) :
    SignatureCount(ref_sigs, sig) = SignatureCount(case_sigs, sig)

\* C22: the presence comparison discards position: whenever the reference
\* and the candidate hold the same multiset of substructure signatures
\* (e.g. two list elements of different object signatures swapped), the
\* presence edit list of the Delta is empty.
C22_PresenceDiscardsPosition ==
  (Diffed /\ SameSignatures(SignaturesOf(request), SignaturesOf(result.case)))
    => result.delta[1] = <<>>

\* the query pairs of a request or a case, as parse_qsl gives them
QueryPairs(c) == ParseQsl(UrlParse(c).query)

\* the number of mods that take pair away: a 'del' of it, or a 'chg' from
\* its value
Removals(mods, pair) ==
  Cardinality({n \in 1..Len(mods) :
     /\ mods[n]["field"] = pair[1]
     /\ \/ "del" \in DOMAIN mods[n] /\ mods[n]["del"] = pair[2]
        \/ "chg" \in DOMAIN mods[n] /\ mods[n]["chg"] = pair[2]})

\* the number of mods that bring pair in: an 'add' of it, or a 'chg' to
\* its value
Additions(mods, pair) ==
  Cardinality({n \in 1..Len(mods) :
     /\ mods[n]["field"] = pair[1]
     /\ \/ "add" \in DOMAIN mods[n] /\ mods[n]["add"] = pair[2]
        \/ "to" \in DOMAIN mods[n] /\ mods[n]["to"] = pair[2]})

\* the pairs that mods name
PairsNamed(mods) ==
  UNION {{<<mods[n]["field"], mods[n][k]>> : k \in DOMAIN mods[n] \ {"field"}}
         : n \in 1..Len(mods)}

\* mods, applied to the multiset of pairs of ref, give that of case
Transforms(mods, ref, case) ==
  \A pair \in Range(ref) \cup Range(case) \cup PairsNamed(mods) :
    /\ Removals(mods, pair) <= Occurrences(ref, pair)
    /\ Occurrences(case, pair)
         = Occurrences(ref, pair) - Removals(mods, pair)
             + Additions(mods, pair)

C23_AddWitness ==
  /\ QueryParamsReported
  /\ \E n \in 1..Len(result.report.deltas) :
       /\ QueryPairs(request) = <<>>
       /\ result.report.deltas[n][1][3] = <<("field" :> "x") @@ ("add" :> "2")>>

\* the names of the pairs of the non-equal alignment blocks of the name-sorted
\* queries of ref and case, on either side
TouchedNames(ref, case) ==
  LET ref_qsparams == RequestUrl(ref)[2]
      case_qsparams == RequestUrl(case)[2]
      opcodes == Edits(ref_qsparams, case_qsparams)
  IN UNION {{ref_qsparams[i][1] : i \in (opcodes[n][2] + 1)..opcodes[n][3]}
              \cup {case_qsparams[j][1] : j \in (opcodes[n][4] + 1)..opcodes[n][5]}
            : n \in 1..Len(opcodes)}

\* C24: the 'params with differing value sequences' mapping of every query
\* string Delta reported has an entry for every parameter name touched by
\* an edit, on the request side or on the case side, and maps the name to
\* the values the case gives it, in the case's order.
C24_ParamsOfTouchedNames ==
  QueryParamsReported =>
    \A n \in 1..Len(result.report.deltas) :
      LET params == result.report.deltas[n][1][2]
          case == result.report.deltas[n][2]
      IN /\ Range(DictKeys(params)) = TouchedNames(request, case)
         /\ \A name \in TouchedNames(request, case) :
              /\ DictHas(params, name)
              /\ DictGet(params, name)
                   = Column(ValuesOf(QueryPairs(case), name), 2)

\* the configured routes, when every template is valid
ConfiguredRoutes == CollectedRoutes(serverless)

\* the route's matcher accepts the request mapped
Accepts(route_entry) ==
  MatcherCall(route_entry[1], request[1], request[2]).matched

\* the first segment at which two templates differ, or 0
FirstDifferingSegment(t1, t2) ==
  LET differing == {i \in 1..Min(Len(t1), Len(t2)) : t1[i] # t2[i]}
  IN IF differing = {} THEN 0
     ELSE CHOOSE i \in differing : \A j \in differing : i <= j

\* route r1 takes precedence over route r2: at the first segment where
\* they differ r1 has a literal and r2 a template parameter
TakesPrecedence(r1, r2) ==
  LET i == FirstDifferingSegment(r1[1].path_segments, r2[1].path_segments)
  IN /\ i > 0
     /\ ~IsParam(r1[1].path_segments[i])
     /\ IsParam(r2[1].path_segments[i])

\* map returned (or the function it returned was called), the templates of
\* the config being valid
Mapped ==
  /\ op \in {"map", "handler"}
  /\ ~(result.kind = "raise" /\ result.exc = "InvalidPathTemplate")

\* route_entry is a matching route of highest precedence, handler is its
\* handler and path_params what its matcher captured
IsBestRoute(route_entry, handler, path_params) ==
  /\ Accepts(route_entry)
  /\ route_entry[2] = handler
  /\ MatcherCall(route_entry[1], request[1], request[2]).params = path_params
  /\ \A n \in 1..Len(ConfiguredRoutes) :
       Accepts(ConfiguredRoutes[n])
         => ~TakesPrecedence(ConfiguredRoutes[n], route_entry)

\* C25: map(method, path) raises NoRoute if and only if no configured
\* route's matcher accepts (method, path); otherwise it returns the handler
\* of a matching route over which no matching route takes precedence, a
\* literal segment taking precedence over a template parameter at the first
\* segment where two routes differ; and the handler is called with the event
\* whose 'pathParameters' is what that route captured, the event's other
\* keys as they were.
C25_MapsToBestRoute ==
  Mapped =>
    /\ (result.kind = "raise" /\ result.exc = "NoRoute")
         <=> (\A n \in 1..Len(ConfiguredRoutes) : ~Accepts(ConfiguredRoutes[n]))
    /\ result.kind = "handler" =>
         \E n \in 1..Len(ConfiguredRoutes) :
           IsBestRoute(ConfiguredRoutes[n], result.handler, result.path_params)
    /\ result.kind = "called" =>
         /\ "pathParameters" \in DOMAIN result.event
         /\ \E n \in 1..Len(ConfiguredRoutes) :
              IsBestRoute(ConfiguredRoutes[n], result.handler,
                          result.event["pathParameters"])

\* the handler is called with the event's other keys as they were
C25_EventKept ==
  [][\A event \in Events :
       HandlerCall(event) =>
         \A k \in DOMAIN event \ {"pathParameters"} :
           k \in DOMAIN result'.event /\ result'.event[k] = event[k]]_vars

\* C25 witness: /{x}/{y} is configured before /a/{y}, get /a/b is mapped
\* and the function returned is called: the handler of /a/{y} gets the
\* event with pathParameters {y: b}
C25_Witness ==
  /\ op = "handler"
  /\ Len(serverless) = 2
  /\ ConfiguredRoutes[1][1].path_segments = <<Param("x", FALSE), Param("y", FALSE)>>
  /\ ConfiguredRoutes[2][1].path_segments = <<Lit("a"), Param("y", FALSE)>>
  /\ request = <<"get", <<"a", "b">>>>
  /\ result.handler = LambdaHandlerProxy("h2", <<Lit("a"), Param("y", FALSE)>>)
  /\ result.event = ("pathParameters" :> ("y" :> "b")) @@ ("rawPath" :> "/a")

\* no route accepts post /a/b/a and map raises NoRoute
C25_NoRouteWitness ==
  /\ op = "map"
  /\ Len(serverless) = 2
  /\ Len(ConfiguredRoutes) = 2
  /\ request = <<"post", <<"a", "b", "a">>>>
  /\ result.kind = "raise" /\ result.exc = "NoRoute"

\* confirm_expected_response was applied to a case that lists headers
HeadersConfirmed ==
  op = "confirm_expected_response" /\ "response headers" \in DOMAIN request

\* the values the case lists for the header
ValuesListed(name) ==
  {request["response headers"][n][2]
   : n \in {m \in 1..Len(request["response headers"])
            : request["response headers"][m][1] = name}}

\* the headers the case lists and the handler returned as multi-value
\* headers
MultiValueHeadersListed ==
  {request["response headers"][n][1] : n \in 1..Len(request["response headers"])}
    \cap DOMAIN Get(result.handler_result, "multiValueHeaders", <<>>)

\* C26: for a header that the case lists and the handler returns as a
\* multi-value header, confirm_expected_response raises AssertionError
\* whenever the set of values in the response differs from the set of
\* values the case lists for it (a listed value missing, or a value not
\* listed), and so passes only when the two sets are equal.
C26_MultiValueHeaderSets ==
  HeadersConfirmed =>
    \A name \in MultiValueHeadersListed :
      Range(result.handler_result["multiValueHeaders"][name]) # ValuesListed(name)
        => /\ result.outcome.kind = "raise"
           /\ result.outcome.exc = "AssertionError"

\* the documents a JsonMap was built of: the reference by JsonComparer(ref),
\* and the case by diff
Walked == {request} \cup (IF op = "diff" THEN {result.case} ELSE {})

\* the key paths of the nodes of a document
RECURSIVE Nodes(_)
Nodes(doc) ==
  {<<>>} \cup
    (IF doc.t = "dict"
     THEN UNION {{<<k>> \o p : p \in Nodes(doc.v[k])} : k \in DOMAIN doc.v}
     ELSE IF doc.t = "list"
     THEN UNION {{<<IndexSegment(i - 1)>> \o p : p \in Nodes(doc.v[i])}
                 : i \in 1..Len(doc.v)}
     ELSE {})

\* the node of the document that a key path locates
RECURSIVE ValueAt(_, _)
ValueAt(doc, key_path) ==
  IF key_path = <<>> THEN doc
  ELSE IF doc.t = "list"
  THEN ValueAt(doc.v[CHOOSE i \in 1..Len(doc.v)
                       : IndexSegment(i - 1) = Head(key_path)],
               Tail(key_path))
  ELSE ValueAt(doc.v[Head(key_path)], Tail(key_path))

\* one child of a collection is visited before another: by index in a
\* list, by key in an object
SiblingBefore(parent, s1, s2) ==
  IF parent.t = "list"
  THEN \E i, j \in 1..Len(parent.v) :
         i < j /\ s1 = IndexSegment(i - 1) /\ s2 = IndexSegment(j - 1)
  ELSE StrLt(s1, s2)

\* depth-first pre-order of two different key paths: a node before the
\* nodes below it, and otherwise as the children are ordered where the
\* paths part
PreOrderBefore(doc, p, q) ==
  LET common == {n \in 0..Min(Len(p), Len(q)) : Take(p, n) = Take(q, n)}
      n == CHOOSE m \in common : \A l \in common : l <= m
  IN IF n = Len(p) THEN TRUE
     ELSE IF n = Len(q) THEN FALSE
     ELSE SiblingBefore(ValueAt(doc, Take(p, n)), p[n + 1], q[n + 1])

\* the walk of the document is its nodes, each once, in pre-order, each
\* with the value its key path locates
WalksEveryNodeInPreOrder(doc) ==
  LET index == JsonIndex(doc)
  IN /\ Len(index) = Cardinality(Nodes(doc))
     /\ Range(Column(index, 3)) = Nodes(doc)
     /\ index[1][3] = <<>>
     /\ \A i \in 1..Len(index) : index[i][2] = ValueAt(doc, index[i][3])
     /\ \A i, j \in 1..Len(index) :
          i < j => PreOrderBefore(doc, index[i][3], index[j][3])

\* substruct_locations and scalars are both had, and every node is in
\* exactly one of them, once
PartitionsTheNodes(doc) ==
  LET index == JsonIndex(doc)
      collections == Column(SubstructLocations(index), 1)
      scalars == Column(Scalars(index), 1)
  IN /\ ~IndexRaises(index)
     /\ Range(collections) \cup Range(scalars) = Nodes(doc)
     /\ Len(collections) + Len(scalars) = Cardinality(Nodes(doc))
     /\ \A p \in Range(collections) : ValueAt(doc, p).t \in {"list", "dict"}
     /\ \A p \in Range(scalars) : ValueAt(doc, p).t \notin {"list", "dict"}

\* C27: JsonWalker.walk yields exactly one (signature, value, key path)
\* triple per node of the document in depth-first pre-order (the root
\* first with the empty key path, a collection before its children, object
\* children by ascending key, list children by index), every key path
\* locates the yielded value, and JsonMap.substruct_locations and
\* JsonMap.scalars together cover every node exactly once.
C27_WalkCoversEveryNodeOnce ==
  \A doc \in Walked : WalksEveryNodeInPreOrder(doc) /\ PartitionsTheNodes(doc)

\* diff returned a Delta whose presence and location lists are empty
ScalarTierReached ==
  /\ op = "diff"
  /\ result.kind = "delta"
  /\ result.delta[1] = <<>>
  /\ result.delta[2] = <<>>

\* the places of the scalars at which the two documents hold different
\* values
DifferingPlaces(ref_scalars, case_scalars) ==
  {i \in 1..Len(ref_scalars) : ref_scalars[i][2] # case_scalars[i][2]}

C29_QueryDeltasNeverEmpty ==
  (op = "best_matches" /\ QueryParamsReported) =>
    /\ \A n \in 1..Len(result.report.deltas) :
         /\ result.report.deltas[n][1][1] >= 1
         /\ result.report.deltas[n][1][3] # <<>>
    /\ \A i \in 1..Len(cases) :
         RequestUrlPath(cases[i]) = RequestUrlPath(request)
           => RequestUrl(cases[i])[2] # RequestUrl(request)[2]

\* C29 witness: a query string report with two entries, one of them for a
\* case whose query only adds pairs to the request's
C29_Witness ==
  /\ op = "best_matches"
  /\ QueryParamsReported
  /\ Len(result.report.deltas) = 2
  /\ \E n \in 1..2 :
       /\ RequestUrl(request)[2] = <<>>
       /\ result.report.deltas[n][1][1] >= 1
       /\ \A m \in 1..Len(result.report.deltas[n][1][3]) :
            "add" \in DOMAIN result.report.deltas[n][1][3][m]

\* the places of the catalogue whose case has the case key of c
SameKeyPlaces(c) ==
  {i \in 1..Len(cases)
   : CaseKey(cases[i], add_request_keys) = CaseKey(c, add_request_keys)}

\* an index keeps every case, each in the one group of its key and in
\* catalogue order there; keys[i] is the index key of cases[i]
GroupsEveryCase(index, keys) ==
  /\ \A n, m \in 1..Len(index) : index[n][1] = index[m][1] => n = m
  /\ Range(keys) = {index[n][1] : n \in 1..Len(index)}
  /\ \A n \in 1..Len(index) :
       LET places == SelectSeq([i \in 1..Len(cases) |-> i],
                               LAMBDA i : keys[i] = index[n][1])
       IN index[n][2] = [l \in 1..Len(places) |-> cases[places[l]]]

\* C30: when several recorded cases have the same case key, get_case
\* returns the one that comes last in the catalogue, while the reqline, url
\* and path indices keep every case, each in exactly one group per index
\* and in catalogue order within the group.
C30_LastCaseWinsIndicesKeepAll ==
  /\ op = "get_case" =>
       \A i \in SameKeyPlaces(request) :
         /\ result.kind = "case"
         /\ (\A j \in SameKeyPlaces(request) : j <= i) => result.case = cases[i]
  /\ GroupsEveryCase(reqlines, [i \in 1..Len(cases) |-> Reqline(cases[i])])
  /\ GroupsEveryCase(urls, [i \in 1..Len(cases) |-> RequestUrl(cases[i])])
  /\ GroupsEveryCase(paths, [i \in 1..Len(cases) |-> RequestUrlPath(cases[i])])

\* C30 witness: two different cases of one case key, the second returned by
\* get_case, and both kept by the reqline, url and path indices in that
\* order
C30_Witness ==
  /\ op = "get_case"
  /\ Len(cases) = 2
  /\ cases[1] # cases[2]
  /\ SameKeyPlaces(request) = {1, 2}
  /\ result.kind = "case"
  /\ result.case = cases[2]
  /\ reqlines = <<<<Reqline(cases[1]), cases>>>>
  /\ urls = <<<<RequestUrl(cases[1]), cases>>>>
  /\ paths = <<<<RequestUrlPath(cases[1]), cases>>>>
====
